---- MODULE Spec2Model ----
(***************************************************************************)
(* A model of vDOM (src/index.ts): the VirtualDOM tree container, its      *)
(* VirtualElement nodes, the clone-before-mutate change notification and   *)
(* the structural operations on both.                                      *)
(*                                                                         *)
(* Objects live in heaps indexed by allocation order:                      *)
(*   elements     the VirtualElement objects created so far                *)
(*   attrObjects  the `attributes` objects; attrObjects[i] is the object   *)
(*                the i-th VirtualElement constructor created.  An element *)
(*                holds a REFERENCE (an index) to an attributes object, so *)
(*                that two elements can share one object.                  *)
(*   doms         the VirtualDOM objects, by name                          *)
(* JavaScript arrays are TLA+ sequences; the array helpers below take and  *)
(* return JavaScript's 0-based indices.                                    *)
(***************************************************************************)
EXTENDS Integers, Sequences, FiniteSets, TLC

VARIABLES elements, attrObjects, doms, last, calls

vars == <<elements, attrObjects, doms, last, calls>>

(* ---------------------------- bounds ----------------------------------- *)
MaxNodes == 3
MaxCalls == 3
MaxListeners == 1

Tags == {"div"}
AttrNames == {"id"}
AttrValues == {"a", "b"}
Texts == {"t"}
Callbacks == {"cb"}
DomNames == {"dom"}

(* `parent` of an element that has none (undefined or null: the code only  *)
(* ever tests it for truthiness).  Element references are 1, 2, ...        *)
None == 0

(* ------------------------ JavaScript arrays ---------------------------- *)
Max(a, b) == IF a > b THEN a ELSE b
Min(a, b) == IF a < b THEN a ELSE b

includes(arr, x) == \E i \in 1..Len(arr) : arr[i] = x

(* Array.prototype.indexOf: the 0-based index of the first occurrence, -1  *)
(* when there is none.                                                     *)
indexOf(arr, x) ==
    IF includes(arr, x)
    THEN (CHOOSE i \in 1..Len(arr) :
              arr[i] = x /\ \A j \in 1..(i - 1) : arr[j] # x) - 1
    ELSE -1

(* Array.prototype.splice(start, deleteCount, ...items): a negative start  *)
(* counts from the end of the array (clamped at 0).                        *)
splice(arr, start, deleteCount, items) ==
    LET len == Len(arr)
        s   == IF start < 0 THEN Max(len + start, 0) ELSE Min(start, len)
        dc  == Min(Max(deleteCount, 0), len - s)
    IN  SubSeq(arr, 1, s) \o items \o SubSeq(arr, s + dc + 1, len)

(* arr[i] = x: replaces an element, extends the array by one at i = length;*)
(* at i = -1 it sets a property named "-1", which is no array element.     *)
setIndex(arr, i, x) ==
    IF i >= 0 /\ i < Len(arr) THEN [arr EXCEPT ![i + 1] = x]
    ELSE IF i = Len(arr) THEN Append(arr, x)
    ELSE arr

push(arr, x) == Append(arr, x)

Count(arr, x) == Cardinality({i \in 1..Len(arr) : arr[i] = x})

RECURSIVE Concat(_)
Concat(ss) == IF ss = <<>> THEN <<>> ELSE Head(ss) \o Concat(Tail(ss))

RECURSIVE Sum(_)
Sum(ns) == IF ns = <<>> THEN 0 ELSE Head(ns) + Sum(Tail(ns))

(* ------------------------------ objects -------------------------------- *)
(* #shadow of an element that has none (null); an optional object is the   *)
(* empty sequence when undefined and <<object>> otherwise; the             *)
(* eventListeners object {} of a new element has no list for any name.     *)
NoDOM == ""
undefined == <<>>
NoEventListeners == [eventName \in {} |-> <<>>]

(* new VirtualElement(tagName, parentDocument); `attributes` is the        *)
(* reference of the attributes object the constructor creates.             *)
NewElement(tagName, parentDocument, attributes) ==
    [ tagName        |-> tagName,
      attributes     |-> attributes,
      children       |-> <<>>,
      parent         |-> None,
      parentDocument |-> parentDocument,
      isRemoved      |-> FALSE,
      innerText      |-> "",
      shadow         |-> NoDOM,
      shadowOptions  |-> undefined,
      eventListeners |-> NoEventListeners ]

NewAttributes == [k \in {"class"} |-> ""]

NewDOM == [ directChildren      |-> <<>>,
            children            |-> <<>>,
            treeChangeListeners |-> <<>> ]

(* The world an operation runs in and transforms: the three heaps, the     *)
(* deliveries made to tree-change listeners so far in the current call,    *)
(* and the error thrown ("" when none).                                    *)
World == [ elements    |-> elements,
           attrObjects |-> attrObjects,
           doms        |-> doms,
           notified    |-> <<>>,
           thrown      |-> "" ]

Nodes == 1..Len(elements)

throw(w, error) == [w EXCEPT !.thrown = error]

(* --------------------------- cloneNode --------------------------------- *)
childSet(w, n) ==
    {w.elements[n].children[i] : i \in 1..Len(w.elements[n].children)}

RECURSIVE Reach(_, _)
Reach(w, S) ==
    LET T == S \cup UNION {childSet(w, n) : n \in S}
    IN  IF T = S THEN S ELSE Reach(w, T)

(* The descendants of n through the `children` arrays (n itself only when  *)
(* it lies on a cycle).                                                    *)
descendants(w, n) == Reach(w, childSet(w, n))

(* A deep cloneNode recurses through `children` without a visited set:     *)
(* when a cycle is reachable from n the recursion never ends and the       *)
(* engine throws RangeError (call stack exhausted) before anything is      *)
(* mutated.                                                                *)
overflows(w, n) ==
    \E m \in {n} \cup descendants(w, n) : m \in descendants(w, m)

(* cloneNode(deep): the clone as a value.  Its `attributes` is the SAME    *)
(* reference as the original's (_duringClone().setAttributes assigns the   *)
(* object, it does not copy it); `parent` is copied; children are cloned   *)
(* with the default deep = true; $isRemoved is the constructor's false.    *)
RECURSIVE cloneNode(_, _, _)
cloneNode(w, n, deep) ==
    LET e == w.elements[n]
    IN  [ tagName        |-> e.tagName,
          attributes     |-> e.attributes,
          children       |-> IF deep
                             THEN [i \in 1..Len(e.children) |->
                                      cloneNode(w, e.children[i], TRUE)]
                             ELSE <<>>,
          parent         |-> e.parent,
          parentDocument |-> e.parentDocument,
          isRemoved      |-> FALSE,
          innerText      |-> e.innerText,
          shadow         |-> NoDOM,
          shadowOptions  |-> undefined,
          eventListeners |-> NoEventListeners ]

(* The number of elements a clone value consists of.                       *)
RECURSIVE cloneSize(_)
cloneSize(c) ==
    1 + Sum([i \in 1..Len(c.children) |-> cloneSize(c.children[i])])

(* The elements of a clone value laid out in the heap, the root at         *)
(* reference `at`, every subtree after it in pre-order.                    *)
RECURSIVE cloneElements(_, _)
cloneElements(c, at) ==
    LET kidAt(i) == at + 1 +
            Sum([j \in 1..(i - 1) |-> cloneSize(c.children[j])])
    IN  <<[c EXCEPT !.children = [i \in 1..Len(c.children) |-> kidAt(i)]]>>
        \o Concat([i \in 1..Len(c.children) |->
                      cloneElements(c.children[i], kidAt(i))])

(* ------------------------ change notification -------------------------- *)
(* The callbacks a caller may register with $onTreeChange, by what they    *)
(* do when called with (element, oldVersion):                              *)
(*   "cb", "cb2"  look at their arguments and return                       *)
(*   "fails"      throws                                                   *)
(*   "mutates"    if (element.innerText !== "t") element.innerText = "t"   *)
RECURSIVE VirtualElement_setInnerText(_, _, _)

(* A "mutates" callback whose assignment is not announced to anyone. *)
invoke_unannounced(w, cb, e, e2) ==
    IF cb = "fails" THEN throw(w, "ListenerError")
    ELSE IF cb = "mutates" /\ w.elements[e].innerText # "t"
    THEN [w EXCEPT !.elements[e].innerText = "t"]
    ELSE w

invoke(w, cb, e, e2) ==
    IF cb = "fails" THEN throw(w, "ListenerError")
    ELSE IF cb = "mutates" /\ w.elements[e].innerText # "t"
    THEN VirtualElement_setInnerText(w, e, "t")
    ELSE w

(* What a callback is given, and what it sees of `current` when called:    *)
(* `notification` numbers the _notifyTreeChange invocations of one call.   *)
delivery(w, t, i, id, e, e2) ==
    [ dom          |-> t,
      listener     |-> i,
      callback     |-> w.doms[t].treeChangeListeners[i],
      notification |-> id,
      current      |-> e,
      snapshot     |-> e2,
      seen         |-> [ element    |-> w.elements[e],
                         attributes |-> w.attrObjects[w.elements[e].attributes] ] ]

(* forEach that catches what a callback throws and goes on. *)
RECURSIVE forEachListener_isolating(_, _, _, _, _, _)
forEachListener_isolating(w, t, e, e2, i, id) ==
    IF i > Len(w.doms[t].treeChangeListeners) THEN w
    ELSE LET w1 == [w EXCEPT !.notified = Append(@, delivery(w, t, i, id, e, e2))]
             w2 == invoke(w1, w1.doms[t].treeChangeListeners[i], e, e2)
         IN  forEachListener_isolating([w2 EXCEPT !.thrown = ""], t, e, e2, i + 1, id)

(* this.#treeChangeListeners.forEach((c) => c(e, e2)), from the i-th       *)
(* listener on: a callback that throws ends the loop.                      *)
RECURSIVE forEachListener(_, _, _, _, _, _)
forEachListener(w, t, e, e2, i, id) ==
    IF i > Len(w.doms[t].treeChangeListeners) THEN w
    ELSE LET w1 == [w EXCEPT !.notified = Append(@, delivery(w, t, i, id, e, e2))]
             w2 == invoke(w1, w1.doms[t].treeChangeListeners[i], e, e2)
         IN  IF w2.thrown # "" THEN w2
             ELSE forEachListener(w2, t, e, e2, i + 1, id)

(* VirtualDOM._notifyTreeChange(e, e2): every registered callback, in      *)
(* registration order, is called with (e, e2).                             *)
notifyTreeChange(w, t, e, e2) ==
    forEachListener(w, t, e, e2, 1,
        1 + Cardinality({k \in 1..Len(w.notified) : w.notified[k].listener = 1}))

(* A registration that ignores a callback already registered. *)
onTreeChange_dedup(w, t, callback) ==
    IF includes(w.doms[t].treeChangeListeners, callback) THEN w
    ELSE [w EXCEPT !.doms[t].treeChangeListeners = push(@, callback)]

(* VirtualDOM.$onTreeChange(callback) *)
onTreeChange(w, t, callback) ==
    [w EXCEPT !.doms[t].treeChangeListeners = push(@, callback)]

(* ---------------------------- VirtualDOM ------------------------------- *)
(* createElement that also makes the new element a top-level node. *)
VirtualDOM_createElement_attached(w, t, tagName) ==
    [w EXCEPT !.elements    = Append(@, NewElement(tagName, t, Len(@) + 1)),
              !.attrObjects = Append(@, NewAttributes),
              !.doms[t].directChildren = push(@, Len(w.elements) + 1)]

(* VirtualDOM.createElement(tagName) *)
VirtualDOM_createElement(w, t, tagName) ==
    [w EXCEPT !.elements    = Append(@, NewElement(tagName, t, Len(@) + 1)),
              !.attrObjects = Append(@, NewAttributes)]

(* VirtualDOM.removeChild that detaches an element it does not find. *)
VirtualDOM_removeChild_lenient(w, t, element) ==
    LET index  == indexOf(w.doms[t].directChildren, element)
        index2 == indexOf(w.doms[t].children, element)
    IN  IF index # -1
        THEN [w EXCEPT !.doms[t].directChildren = splice(@, index, 1, <<>>),
                       !.elements[element].isRemoved = TRUE]
        ELSE IF index2 = -1
        THEN [w EXCEPT !.elements[element].isRemoved = TRUE]
        ELSE [w EXCEPT !.doms[t].children = splice(@, index2, 1, <<>>),
                       !.elements[element].isRemoved = TRUE]

(* VirtualDOM.removeChild(element) *)
VirtualDOM_removeChild(w, t, element) ==
    LET index  == indexOf(w.doms[t].directChildren, element)
        index2 == indexOf(w.doms[t].children, element)
    IN  IF index # -1
        THEN [w EXCEPT !.doms[t].directChildren = splice(@, index, 1, <<>>),
                       !.elements[element].isRemoved = TRUE]
        ELSE IF index2 = -1
        THEN throw(w, "NotFound")
        ELSE [w EXCEPT !.doms[t].children = splice(@, index2, 1, <<>>),
                       !.elements[element].isRemoved = TRUE]

(* VirtualDOM.appendChild without `child.parent = null`. *)
VirtualDOM_appendChild_keepsParent(w, t, child) ==
    IF w.elements[child].isRemoved THEN w
    ELSE [w EXCEPT !.doms[t].directChildren = push(@, child)]

(* VirtualDOM.appendChild that takes a removed element back. *)
VirtualDOM_appendChild_revives(w, t, child) ==
    [w EXCEPT !.doms[t].directChildren = push(@, child),
              !.elements[child].parent = None,
              !.elements[child].isRemoved = FALSE]

(* VirtualDOM.appendChild(child) *)
VirtualDOM_appendChild(w, t, child) ==
    IF w.elements[child].isRemoved THEN w
    ELSE [w EXCEPT !.doms[t].directChildren = push(@, child),
                   !.elements[child].parent = None]

(* VirtualDOM.insertBefore(child, reference) *)
VirtualDOM_insertBefore(w, t, child, reference) ==
    IF w.elements[child].isRemoved THEN w
    ELSE LET index == indexOf(w.doms[t].directChildren, reference)
         IN  [w EXCEPT !.doms[t].directChildren =
                           splice(@, index, 0, <<child>>)]

(* VirtualDOM.replaceChild(child, oldChild) *)
VirtualDOM_replaceChild(w, t, child, oldChild) ==
    IF w.elements[child].isRemoved THEN w
    ELSE IF includes(w.doms[t].directChildren, oldChild)
    THEN [w EXCEPT !.doms[t].directChildren =
                       setIndex(@, indexOf(@, oldChild), child)]
    ELSE IF includes(w.doms[t].children, oldChild)
    THEN [w EXCEPT !.doms[t].children =
                       setIndex(@, indexOf(@, oldChild), child)]
    ELSE throw(w, "NotFound")

(* --------------------------- VirtualElement ---------------------------- *)
domOf(w, self) == w.elements[self].parentDocument
attributesOf(w, self) == w.attrObjects[w.elements[self].attributes]

(* The protocol without its last step, the notification. *)
mutation_silent(w, self, body) ==
    IF overflows(w, self) THEN throw(w, "RangeError")
    ELSE body

(* The protocol with a mutation that is undone when a listener throws. *)
mutation_rollback(w, self, body) ==
    IF overflows(w, self) THEN throw(w, "RangeError")
    ELSE IF body.thrown # "" THEN body
    ELSE LET w1 == notifyTreeChange(body, domOf(w, self), self, cloneNode(w, self, TRUE))
         IN  IF w1.thrown = "" THEN w1
             ELSE [w1 EXCEPT !.elements = w.elements,
                             !.attrObjects = w.attrObjects,
                             !.doms = w.doms]

(* The protocol of every mutation: const oldVer = this.cloneNode(); the    *)
(* mutation; this.parentDocument._notifyTreeChange(this, oldVer).  `body`  *)
(* is the world after the mutation, computed from w.                       *)
mutation(w, self, body) ==
    IF overflows(w, self) THEN throw(w, "RangeError")
    ELSE IF body.thrown # "" THEN body
    ELSE notifyTreeChange(body, domOf(w, self), self, cloneNode(w, self, TRUE))

(* setAttribute(name, value) *)
VirtualElement_setAttribute(w, self, name, value) ==
    mutation(w, self,
        [w EXCEPT !.attrObjects[w.elements[self].attributes] =
            [k \in DOMAIN @ \cup {name} |-> IF k = name THEN value ELSE @[k]]])

(* removeAttribute(name) *)
VirtualElement_removeAttribute(w, self, name) ==
    mutation(w, self,
        [w EXCEPT !.attrObjects[w.elements[self].attributes] =
            [k \in DOMAIN @ \ {name} |-> @[k]]])

(* appendChild that leaves the tree's flattened index alone. *)
VirtualElement_appendChild_noIndex(w, self, child) ==
    LET w1 == [w  EXCEPT !.elements[self].children = push(@, child)]
        w2 == [w1 EXCEPT !.elements[child].parent = self]
    IN  mutation(w, self, w2)

(* appendChild(child) *)
VirtualElement_appendChild(w, self, child) ==
    LET w1 == [w  EXCEPT !.elements[self].children = push(@, child)]
        w2 == [w1 EXCEPT !.elements[child].parent = self]
        w3 == [w2 EXCEPT !.doms[domOf(w, self)].children = push(@, child)]
    IN  mutation(w, self, w3)

(* replaceChild(child, oldChild) *)
VirtualElement_replaceChild(w, self, child, oldChild) ==
    IF ~includes(w.elements[self].children, oldChild)
    THEN throw(w, "NotFound")
    ELSE LET w1 == [w  EXCEPT !.elements[self].children =
                                  setIndex(@, indexOf(@, oldChild), child)]
             w2 == [w1 EXCEPT !.elements[child].parent = self]
             w3 == [w2 EXCEPT !.doms[domOf(w, self)].children =
                                  setIndex(@, indexOf(@, oldChild), child)]
         IN  mutation(w, self, w3)

(* prepend(element) *)
VirtualElement_prepend(w, self, element) ==
    LET t      == domOf(w, self)
        parent == w.elements[self].parent
    IN  mutation(w, self,
            IF includes(w.doms[t].directChildren, self)
            THEN LET w1 == [w EXCEPT !.doms[t].directChildren =
                               splice(@, indexOf(@, self), 0, <<element>>)]
                 IN  [w1 EXCEPT !.elements[element].parent = self]
            ELSE IF parent # None
            THEN LET w1 == [w EXCEPT !.elements[parent].children =
                               splice(@, indexOf(@, self), 0, <<element>>)]
                 IN  [w1 EXCEPT !.doms[t].children =
                               splice(@, indexOf(@, self), 0, <<element>>)]
            ELSE throw(w, "NoParent"))

(* removeChild(child) *)
VirtualElement_removeChild(w, self, child) ==
    LET w1 == [w  EXCEPT !.elements[self].children =
                             splice(@, indexOf(@, child), 1, <<>>)]
        w2 == [w1 EXCEPT !.elements[child].isRemoved = TRUE]
        w3 == [w2 EXCEPT !.doms[domOf(w, self)].children =
                             splice(@, indexOf(@, child), 1, <<>>)]
    IN  mutation(w, self, w3)

(* remove() *)
VirtualElement_remove(w, self) ==
    LET t      == domOf(w, self)
        parent == w.elements[self].parent
    IN  mutation(w, self,
            IF includes(w.doms[t].directChildren, self)
            THEN VirtualDOM_removeChild(w, t, self)
            ELSE IF parent # None
            THEN VirtualElement_removeChild(w, parent, self)
            ELSE [w EXCEPT !.elements[self].isRemoved = TRUE])

(* set firstChild(c) *)
VirtualElement_setFirstChild(w, self, c) ==
    mutation(w, self,
        [w EXCEPT !.elements[self].children = setIndex(@, 0, c)])

(* set lastChild(c) *)
VirtualElement_setLastChild(w, self, c) ==
    mutation(w, self,
        [w EXCEPT !.elements[self].children = setIndex(@, Len(@) - 1, c)])

(* set innerText(value); set textContent(newText) assigns innerText *)
VirtualElement_setInnerText(w, self, value) ==
    mutation(w, self, [w EXCEPT !.elements[self].innerText = value])

(* cloneNode that enters the clone into the tree's flattened index. *)
VirtualElement_cloneNode_indexed(w, self, deep) ==
    IF deep /\ overflows(w, self) THEN throw(w, "RangeError")
    ELSE LET c   == cloneNode(w, self, deep)
             new == cloneElements(c, Len(w.elements) + 1)
         IN  [w EXCEPT !.elements    = @ \o new,
                       !.attrObjects = @ \o [i \in 1..Len(new) |-> NewAttributes],
                       !.doms[domOf(w, self)].children = push(@, Len(w.elements) + 1)]

(* cloneNode(deep) called by the user: the clone and the clones under it   *)
(* are new elements of the heap (each constructed with an attributes       *)
(* object of its own, which setAttributes then drops for the shared one).  *)
VirtualElement_cloneNode(w, self, deep) ==
    IF deep /\ overflows(w, self) THEN throw(w, "RangeError")
    ELSE LET c   == cloneNode(w, self, deep)
             new == cloneElements(c, Len(w.elements) + 1)
         IN  [w EXCEPT !.elements    = @ \o new,
                       !.attrObjects = @ \o [i \in 1..Len(new) |-> NewAttributes]]

(* ------------------------------ actions -------------------------------- *)
(* One call of an operation from outside: the heaps become those of the    *)
(* world the call leaves (also when it throws), and `last` records the     *)
(* call, what it threw and what the tree-change listeners were given.      *)
Return(op, t, self, args, w) ==
    /\ calls < MaxCalls
    /\ calls' = calls + 1
    /\ elements' = w.elements
    /\ attrObjects' = w.attrObjects
    /\ doms' = w.doms
    /\ last' = [op |-> op, dom |-> t, self |-> self, args |-> args,
                thrown |-> w.thrown, notified |-> w.notified]

Init ==
    /\ elements = <<>>
    /\ attrObjects = <<>>
    /\ doms = [t \in DomNames |-> NewDOM]
    /\ last = [op |-> "new VirtualDOM", dom |-> "", self |-> None, args |-> <<>>,
               thrown |-> "", notified |-> <<>>]
    /\ calls = 0

CreateElement ==
    \E t \in DOMAIN doms, tagName \in Tags :
        /\ Len(elements) < MaxNodes
        /\ elements' = VirtualDOM_createElement(World, t, tagName).elements
        /\ attrObjects' = VirtualDOM_createElement(World, t, tagName).attrObjects
        /\ doms' = VirtualDOM_createElement(World, t, tagName).doms
        /\ last' = [op |-> "createElement", dom |-> t, self |-> None, args |-> <<tagName>>,
                    thrown |-> "", notified |-> <<>>]
        /\ UNCHANGED calls

OnTreeChange ==
    \E t \in DOMAIN doms, callback \in Callbacks :
        /\ Len(doms[t].treeChangeListeners) < MaxListeners
        /\ doms' = onTreeChange(World, t, callback).doms
        /\ last' = [op |-> "$onTreeChange", dom |-> t, self |-> None, args |-> <<callback>>,
                    thrown |-> "", notified |-> <<>>]
        /\ UNCHANGED <<elements, attrObjects, calls>>

DomRemoveChild ==
    \E t \in DOMAIN doms, element \in Nodes :
        Return("VirtualDOM.removeChild", t, None, <<element>>,
               VirtualDOM_removeChild(World, t, element))

DomAppendChild ==
    \E t \in DOMAIN doms, child \in Nodes :
        Return("VirtualDOM.appendChild", t, None, <<child>>,
               VirtualDOM_appendChild(World, t, child))

DomInsertBefore ==
    \E t \in DOMAIN doms, child \in Nodes, reference \in Nodes :
        Return("VirtualDOM.insertBefore", t, None, <<child, reference>>,
               VirtualDOM_insertBefore(World, t, child, reference))

DomReplaceChild ==
    \E t \in DOMAIN doms, child \in Nodes, oldChild \in Nodes :
        Return("VirtualDOM.replaceChild", t, None, <<child, oldChild>>,
               VirtualDOM_replaceChild(World, t, child, oldChild))

SetAttribute ==
    \E self \in Nodes, name \in AttrNames, value \in AttrValues :
        Return("setAttribute", domOf(World, self), self, <<name, value>>,
               VirtualElement_setAttribute(World, self, name, value))

RemoveAttribute ==
    \E self \in Nodes, name \in AttrNames :
        Return("removeAttribute", domOf(World, self), self, <<name>>,
               VirtualElement_removeAttribute(World, self, name))

AppendChild ==
    \E self \in Nodes, child \in Nodes :
        Return("appendChild", domOf(World, self), self, <<child>>,
               VirtualElement_appendChild(World, self, child))

ReplaceChild ==
    \E self \in Nodes, child \in Nodes, oldChild \in Nodes :
        Return("replaceChild", domOf(World, self), self, <<child, oldChild>>,
               VirtualElement_replaceChild(World, self, child, oldChild))

Prepend ==
    \E self \in Nodes, element \in Nodes :
        Return("prepend", domOf(World, self), self, <<element>>,
               VirtualElement_prepend(World, self, element))

Remove ==
    \E self \in Nodes :
        Return("remove", domOf(World, self), self, <<>>, VirtualElement_remove(World, self))

RemoveChild ==
    \E self \in Nodes, child \in Nodes :
        Return("removeChild", domOf(World, self), self, <<child>>,
               VirtualElement_removeChild(World, self, child))

SetFirstChild ==
    \E self \in Nodes, c \in Nodes :
        Return("firstChild=", domOf(World, self), self, <<c>>,
               VirtualElement_setFirstChild(World, self, c))

SetLastChild ==
    \E self \in Nodes, c \in Nodes :
        Return("lastChild=", domOf(World, self), self, <<c>>,
               VirtualElement_setLastChild(World, self, c))

SetInnerText ==
    \E self \in Nodes, value \in Texts :
        Return("innerText=", domOf(World, self), self, <<value>>,
               VirtualElement_setInnerText(World, self, value))

CloneNode ==
    \E self \in Nodes, deep \in BOOLEAN :
        /\ Len(elements) + cloneSize(cloneNode(World, self, FALSE)) <= MaxNodes
        /\ ~overflows(World, self) =>
               Len(elements) + cloneSize(cloneNode(World, self, deep)) <= MaxNodes
        /\ Return("cloneNode", domOf(World, self), self, <<deep>>,
                  VirtualElement_cloneNode(World, self, deep))

Next ==
    \/ CreateElement
    \/ OnTreeChange
    \/ DomRemoveChild
    \/ DomAppendChild
    \/ DomInsertBefore
    \/ DomReplaceChild
    \/ SetAttribute
    \/ RemoveAttribute
    \/ AppendChild
    \/ ReplaceChild
    \/ Prepend
    \/ Remove
    \/ RemoveChild
    \/ SetFirstChild
    \/ SetLastChild
    \/ SetInnerText
    \/ CloneNode

Spec == Init /\ [][Next]_vars

(* ------------------------ derived vocabulary --------------------------- *)
Range(arr) == {arr[i] : i \in 1..Len(arr)}

(* The call that produced the current state completed without an error.    *)
Completed(op) == last.op = op /\ last.thrown = ""

(* n is an entry of the `children` array of some element / of p.           *)
isChildOf(els, n, p) == includes(els[p].children, n)
parentsOf(els, n) == {p \in 1..Len(els) : isChildOf(els, n, p)}

(* The three conditions of a node (spec, section 3).                       *)
isTopLevel(n) ==
    /\ includes(doms[elements[n].parentDocument].directChildren, n)
    /\ elements[n].parent = None

isAttached(n) ==
    /\ Cardinality(parentsOf(elements, n)) = 1
    /\ includes(doms[elements[n].parentDocument].children, n)
    /\ elements[n].parent \in parentsOf(elements, n)

isDetached(n) ==
    /\ elements[n].isRemoved
    /\ \A t \in DOMAIN doms :
           /\ ~includes(doms[t].directChildren, n)
           /\ ~includes(doms[t].children, n)

(* n has been attached somewhere or removed at some time: every such       *)
(* operation leaves a trace in these fields unless it was undone.          *)
attachedOrRemoved(n) ==
    \/ elements[n].isRemoved
    \/ elements[n].parent # None
    \/ parentsOf(elements, n) # {}
    \/ \E t \in DOMAIN doms :
           includes(doms[t].directChildren, n) \/ includes(doms[t].children, n)

(* ------------------------------- claims -------------------------------- *)

(* C1: every node reachable through children from the top-level nodes      *)
(* that is not itself top-level appears exactly once in the tree's         *)
(* flattened index (VirtualDOM.children), and no node is both top-level    *)
(* and in the flattened index.                                             *)
C1_IndexInvariant ==
    \A t \in DOMAIN doms :
        LET top == Range(doms[t].directChildren)
            all == doms[t].children
        IN  /\ \A n \in Reach(World, top) \ top : Count(all, n) = 1
            /\ top \cap Range(all) = {}

(* C2: every node that has been attached or removed is in exactly one of   *)
(* the three conditions: top-level with no parent, attached under exactly  *)
(* one parent and indexed, or removed and in neither collection.           *)
C2_ThreeConditions ==
    \A n \in Nodes :
        attachedOrRemoved(n) =>
            Cardinality({c \in {"top", "attached", "removed"} :
                            \/ c = "top" /\ isTopLevel(n)
                            \/ c = "attached" /\ isAttached(n)
                            \/ c = "removed" /\ isDetached(n)}) = 1

(* The operations that follow the clone / mutate / notify protocol.         *)
MutationOps ==
    {"setAttribute", "removeAttribute", "appendChild", "replaceChild",
     "prepend", "remove", "removeChild", "firstChild=", "lastChild=",
     "innerText="}

(* What the i-th listener of tree t was given during the call l records.   *)
DeliveriesTo(l, t, i) ==
    SelectSeq(l.notified, LAMBDA d : d.dom = t /\ d.listener = i)

ListenersOf(t) == 1..Len(doms[t].treeChangeListeners)

without(arr, x) == SelectSeq(arr, LAMBDA y : y # x)

(* C3 (as stated): every completed call of a mutation delivers exactly one *)
(* notification to each registered listener, wherever the node is.         *)
C3_ExactlyOne ==
    (last.op \in MutationOps /\ last.thrown = "") =>
        \A i \in ListenersOf(last.dom) :
            Len(DeliveriesTo(last, last.dom, i)) = 1

(* remove() hands the removal to the parent's removeChild: the node is not *)
(* top-level and has a parent.                                             *)
delegatesToParent(self) ==
    /\ ~includes(doms[elements[self].parentDocument].directChildren, self)
    /\ elements[self].parent # None

(* C3 (amended): every completed call of a mutation delivers exactly one   *)
(* notification to each listener of the node's tree, except remove() on a  *)
(* node that is not top-level and has a parent, which delivers two: the    *)
(* one of the parent's removeChild it delegates to, then its own.          *)
C3_NotificationCount ==
    [][ (last'.op \in MutationOps /\ last'.thrown = "") =>
          \A t \in DOMAIN doms : \A i \in ListenersOf(t) :
              Len(DeliveriesTo(last', t, i)) =
                  (IF t = elements[last'.self].parentDocument THEN 1 ELSE 0)
                + (IF /\ last'.op = "remove"
                      /\ delegatesToParent(last'.self)
                      /\ t = elements[elements[last'.self].parent].parentDocument
                   THEN 1 ELSE 0) ]_vars

C3_Witness ==
    /\ Completed("remove")
    /\ ListenersOf(last.dom) # {}
    /\ \A i \in ListenersOf(last.dom) :
           /\ Len(DeliveriesTo(last, last.dom, i)) = 2
           /\ DeliveriesTo(last, last.dom, i)[1].current = elements[last.self].parent
           /\ DeliveriesTo(last, last.dom, i)[2].current = last.self

(* C4: the notification of a mutation M on n carries n itself and a        *)
(* snapshot holding n's state before M: the attributes mapping, the text   *)
(* and the children n had when M was called.                               *)
C4_SnapshotIsPreState ==
    [][ (last'.op \in MutationOps /\ last'.thrown = "") =>
          \A i \in ListenersOf(last'.dom) :
              LET ds   == DeliveriesTo(last', last'.dom, i)
                  d    == ds[Len(ds)]
                  self == last'.self
              IN  /\ ds # <<>>
                  /\ d.current = self
                  /\ attrObjects'[d.snapshot.attributes] = attributesOf(World, self)
                  /\ d.snapshot.innerText = elements[self].innerText
                  /\ d.snapshot.children =
                         [k \in 1..Len(elements[self].children) |->
                             cloneNode(World, elements[self].children[k], TRUE)]
      ]_vars

(* c (in the heaps `post`) is a deep clone of n (in the heaps `pre`): same *)
(* tag, attributes and text by value, children new nodes that are deep     *)
(* clones of n's children in the same order.                               *)
RECURSIVE isDeepClone(_, _, _, _)
isDeepClone(post, pre, c, n) ==
    LET ce == post.elements[c]
        ne == pre.elements[n]
    IN  /\ ce.tagName = ne.tagName
        /\ post.attrObjects[ce.attributes] = pre.attrObjects[ne.attributes]
        /\ ce.innerText = ne.innerText
        /\ Len(ce.children) = Len(ne.children)
        /\ \A k \in 1..Len(ne.children) :
               /\ ce.children[k] \notin 1..Len(pre.elements)
               /\ isDeepClone(post, pre, ce.children[k], ne.children[k])

(* C5: cloneNode(true) returns a new node that is a deep clone by value,   *)
(* and the clone's attribute storage is independent of the original's: a   *)
(* setAttribute / removeAttribute on one node leaves the attributes of     *)
(* every other node unchanged.                                             *)
C5_CloneIndependent ==
    [][ /\ (last'.op = "cloneNode" /\ last'.args = <<TRUE>> /\ last'.thrown = "") =>
               isDeepClone([elements |-> elements', attrObjects |-> attrObjects'],
                           World, Len(elements) + 1, last'.self)
        /\ (last'.op \in {"setAttribute", "removeAttribute"}) =>
               \A m \in Nodes \ {last'.self} :
                   attrObjects'[elements'[m].attributes] = attributesOf(World, m)
      ]_vars

(* n is in no collection and has no parent: it was never attached.         *)
neverAttached(n) ==
    /\ elements[n].parent = None
    /\ parentsOf(elements, n) = {}
    /\ \A t \in DOMAIN doms :
           ~includes(doms[t].directChildren, n) /\ ~includes(doms[t].children, n)

(* C6: after n.remove() on a top-level or attached node, n.removed is true *)
(* and n is gone from the collection that held it and from its parent's    *)
(* children; on a never-attached node only removed is set; in every case   *)
(* the call ends with a notification bearing the pre-removal snapshot.     *)
C6_Remove ==
    [][ (last'.op = "remove" /\ last'.thrown = "") =>
          LET self == last'.self
              t    == elements[self].parentDocument
              top  == includes(doms[t].directChildren, self)
              att  == parentsOf(elements, self) # {}
          IN  /\ elements'[self].isRemoved
              /\ top => ~includes(doms'[t].directChildren, self)
              /\ (~top /\ att) =>
                     /\ ~includes(doms'[t].children, self)
                     /\ parentsOf(elements', self) = {}
              /\ neverAttached(self) =>
                     /\ elements' = [elements EXCEPT ![self].isRemoved = TRUE]
                     /\ doms' = doms
                     /\ attrObjects' = attrObjects
              /\ \A i \in ListenersOf(t) :
                     LET ds == DeliveriesTo(last', t, i)
                     IN  /\ ds # <<>>
                         /\ ds[Len(ds)].current = self
                         /\ ds[Len(ds)].snapshot = cloneNode(World, self, TRUE)
      ]_vars

(* C7 (as stated): after parent.appendChild(n), for any prior state, n     *)
(* appears exactly once in parent.children, as its last element, exactly   *)
(* once in the tree's flattened index, and n.parent is parent.             *)
C7_ExactlyOnce ==
    Completed("appendChild") =>
        LET parent == last.self
            n      == last.args[1]
            kids   == elements[parent].children
        IN  /\ Count(kids, n) = 1
            /\ kids[Len(kids)] = n
            /\ Count(doms[last.dom].children, n) = 1
            /\ elements[n].parent = parent

(* C7 (amended): parent.appendChild(n) adds n as the new last element of   *)
(* parent.children and as the new last element of the tree's flattened     *)
(* index, leaving the earlier entries of both in place (entries equal to n *)
(* included), and sets n.parent to parent.                                 *)
C7_AppendChild ==
    [][ (last'.op = "appendChild" /\ last'.thrown = "") =>
          LET parent == last'.self
              n      == last'.args[1]
              t      == elements[parent].parentDocument
          IN  /\ elements'[parent].children = Append(elements[parent].children, n)
              /\ doms'[t].children = Append(doms[t].children, n)
              /\ elements'[n].parent = parent ]_vars

C7_Witness ==
    /\ Completed("appendChild")
    /\ Count(elements[last.self].children, last.args[1]) = 2
    /\ Count(doms[last.dom].children, last.args[1]) = 2
    /\ elements[last.args[1]].parent = last.self

(* C8 (as stated): after tree.appendChild(n) with n not removed, for any   *)
(* prior state, n appears exactly once in the top-level nodes, as the last *)
(* element, and n.parent is none.                                          *)
C8_ExactlyOnce ==
    (Completed("VirtualDOM.appendChild") /\ ~elements[last.args[1]].isRemoved) =>
        LET n   == last.args[1]
            top == doms[last.dom].directChildren
        IN  /\ Count(top, n) = 1
            /\ top[Len(top)] = n
            /\ elements[n].parent = None

(* C8 (amended): tree.appendChild(n) with n not removed adds n as the new  *)
(* last element of the top-level nodes, leaving the earlier entries in     *)
(* place (entries equal to n included), and sets n.parent to none; with n  *)
(* removed the call changes nothing.                                       *)
C8_DomAppendChild ==
    [][ (last'.op = "VirtualDOM.appendChild") =>
          LET n == last'.args[1]
              t == last'.dom
          IN  /\ last'.thrown = ""
              /\ last'.notified = <<>>
              /\ attrObjects' = attrObjects
              /\ IF elements[n].isRemoved
                 THEN elements' = elements /\ doms' = doms
                 ELSE /\ doms' = [doms EXCEPT ![t].directChildren = Append(@, n)]
                      /\ elements' = [elements EXCEPT ![n].parent = None] ]_vars

C8_Witness ==
    /\ Completed("VirtualDOM.appendChild")
    /\ ~elements[last.args[1]].isRemoved
    /\ Count(doms[last.dom].directChildren, last.args[1]) = 2
    /\ elements[last.args[1]].parent = None

(* C9: for a child c in parent.children, after parent.removeChild(c), c is *)
(* removed, absent from parent.children and from the tree's flattened      *)
(* index, and all other entries of both keep their relative order.         *)
C9_RemoveChild ==
    [][ ( /\ last'.op = "removeChild" /\ last'.thrown = ""
          /\ includes(elements[last'.self].children, last'.args[1]) ) =>
          LET parent == last'.self
              c      == last'.args[1]
              t      == elements[parent].parentDocument
          IN  /\ elements'[c].isRemoved
              /\ ~includes(elements'[parent].children, c)
              /\ ~includes(doms'[t].children, c)
              /\ elements'[parent].children = without(elements[parent].children, c)
              /\ doms'[t].children = without(doms[t].children, c) ]_vars

(* C10: a detached node is never re-attached: no node with removed = true  *)
(* is an element of the top-level nodes, of the flattened index or of any  *)
(* node's children.                                                        *)
C10_RemovedStaysOut ==
    \A n \in Nodes :
        elements[n].isRemoved =>
            /\ parentsOf(elements, n) = {}
            /\ \A t \in DOMAIN doms :
                   /\ ~includes(doms[t].directChildren, n)
                   /\ ~includes(doms[t].children, n)

(* ------------------ tree-change listeners of every kind ---------------- *)
(* The same operations on a smaller tree, with up to MaxTreeListeners      *)
(* registrations of callbacks that record, fail or mutate.                 *)
MaxTreeListeners == 2
MaxListenerNodes == 2
MaxListenerCalls == 2

ListenerCallbacks == {"cb", "cb2", "fails", "mutates"}

OnTreeChangeAny ==
    \E t \in DOMAIN doms, callback \in ListenerCallbacks :
        /\ Len(doms[t].treeChangeListeners) < MaxTreeListeners
        /\ doms' = onTreeChange(World, t, callback).doms
        /\ last' = [op |-> "$onTreeChange", dom |-> t, self |-> None,
                    args |-> <<callback>>, thrown |-> "", notified |-> <<>>]
        /\ UNCHANGED <<elements, attrObjects, calls>>

(* The step leaves a tree within the bounds of this specification. *)
withinListenerBounds ==
    /\ Len(elements') <= MaxListenerNodes
    /\ calls' <= MaxListenerCalls

NextListeners ==
    \/ CreateElement /\ withinListenerBounds
    \/ OnTreeChangeAny /\ withinListenerBounds
    \/ DomRemoveChild /\ withinListenerBounds
    \/ DomAppendChild /\ withinListenerBounds
    \/ DomInsertBefore /\ withinListenerBounds
    \/ DomReplaceChild /\ withinListenerBounds
    \/ SetAttribute /\ withinListenerBounds
    \/ RemoveAttribute /\ withinListenerBounds
    \/ AppendChild /\ withinListenerBounds
    \/ ReplaceChild /\ withinListenerBounds
    \/ Prepend /\ withinListenerBounds
    \/ Remove /\ withinListenerBounds
    \/ RemoveChild /\ withinListenerBounds
    \/ SetFirstChild /\ withinListenerBounds
    \/ SetLastChild /\ withinListenerBounds
    \/ SetInnerText /\ withinListenerBounds
    \/ CloneNode /\ withinListenerBounds

SpecListeners == Init /\ [][NextListeners]_vars

(* The deliveries of the notification numbered id during the call l, in    *)
(* the order they were made, and the notifications of the call.            *)
deliveriesOf(l, id) == SelectSeq(l.notified, LAMBDA d : d.notification = id)
notificationsOf(l) == {l.notified[k].notification : k \in 1..Len(l.notified)}

(* C11: a notification of tree t invokes the callbacks registered on t in  *)
(* registration order, one call per registration, each with the same       *)
(* (current, snapshot) pair, and all of them when the call completes;      *)
(* $onTreeChange appends its callback whether or not it is registered      *)
(* already, and nothing else changes the list of registrations.            *)
C11_EveryRegistration ==
    [][ /\ \A id \in notificationsOf(last') :
               LET ds == deliveriesOf(last', id)
                   t  == ds[1].dom
                   ls == doms[t].treeChangeListeners
               IN  /\ Len(ds) <= Len(ls)
                   /\ \A k \in 1..Len(ds) :
                          /\ ds[k].dom = t
                          /\ ds[k].listener = k
                          /\ ds[k].callback = ls[k]
                          /\ ds[k].current = ds[1].current
                          /\ ds[k].snapshot = ds[1].snapshot
                   /\ last'.thrown = "" => Len(ds) = Len(ls)
        /\ \A t \in DOMAIN doms :
               doms'[t].treeChangeListeners =
                   IF last'.op = "$onTreeChange" /\ last'.dom = t
                   THEN Append(doms[t].treeChangeListeners, last'.args[1])
                   ELSE doms[t].treeChangeListeners ]_vars

(* One callback registered twice, and a notification that called it twice. *)
C11_Witness ==
    /\ last.op \in MutationOps /\ last.thrown = ""
    /\ doms[last.dom].treeChangeListeners = <<"cb", "cb">>
    /\ Len(last.notified) = 2
    /\ last.notified[1].notification = last.notified[2].notification
    /\ last.notified[1].callback = "cb" /\ last.notified[2].callback = "cb"

(* C12: when a listener fails during a notification, it is the last        *)
(* callback invoked in the call: the listeners registered after it are not *)
(* invoked, and the mutating call ends with the listener's failure.        *)
C12_FailureAborts ==
    \A k \in 1..Len(last.notified) :
        last.notified[k].callback = "fails" =>
            /\ k = Len(last.notified)
            /\ last.thrown = "ListenerError"

(* A failing listener registered before another one, and a mutation.       *)
C12_Witness ==
    /\ last.op \in MutationOps
    /\ doms[last.dom].treeChangeListeners = <<"fails", "cb">>
    /\ last.thrown = "ListenerError"
    /\ Len(last.notified) = 1
    /\ last.notified[1].listener = 1

(* An element but for its text, which a "mutates" callback may assign.     *)
butText(element) == [element EXCEPT !.innerText = ""]

(* C13: a callback is invoked during the mutating call, when the mutation  *)
(* is applied: what it sees of `current` is the state the call leaves (but *)
(* for the text a listener assigns afterwards), and the first callback of  *)
(* an innerText assignment sees the assigned text.  When a callback        *)
(* assigns the text during delivery, the notification of that assignment   *)
(* goes to every listener, from the first on, before the outer             *)
(* notification goes on to the next listener.                              *)
C13_InlineAndNested ==
    [][ LET ds == last'.notified
        IN  /\ \A k \in 1..Len(ds) :
                   /\ butText(ds[k].seen.element) = butText(elements'[ds[k].current])
                   /\ ds[k].seen.attributes =
                          attrObjects'[elements'[ds[k].current].attributes]
            /\ (last'.op = "innerText=" /\ ds # <<>>) =>
                   ds[1].seen.element.innerText = last'.args[1]
            /\ last'.thrown = "" =>
                   \A k \in 1..Len(ds) :
                       (ds[k].callback = "mutates" /\ ds[k].seen.element.innerText # "t") =>
                           LET n == Len(doms[ds[k].dom].treeChangeListeners)
                           IN  /\ Len(ds) >= k + n
                               /\ \A j \in 1..n :
                                      /\ ds[k + j].listener = j
                                      /\ ds[k + j].notification = ds[k + 1].notification
                                      /\ ds[k + j].notification # ds[k].notification
                                      /\ ds[k + j].current = ds[k].current
                                      /\ ds[k + j].seen.element.innerText = "t"
                               /\ ds[k].listener < n =>
                                      /\ Len(ds) > k + n
                                      /\ ds[k + n + 1].notification = ds[k].notification
                                      /\ ds[k + n + 1].listener = ds[k].listener + 1
      ]_vars

(* A mutating listener registered before a recording one: the recording    *)
(* one hears of the nested assignment first, of the outer mutation last.   *)
C13_Witness ==
    /\ Completed("setAttribute")
    /\ doms[last.dom].treeChangeListeners = <<"mutates", "cb">>
    /\ Len(last.notified) = 4
    /\ last.notified[1].notification = 1 /\ last.notified[1].listener = 1
    /\ last.notified[2].notification = 2 /\ last.notified[2].listener = 1
    /\ last.notified[3].notification = 2 /\ last.notified[3].listener = 2
    /\ last.notified[4].notification = 1 /\ last.notified[4].listener = 2
    /\ last.notified[4].seen.element.innerText = "t"

(* ------------------- VirtualDOM.removeChild / insertBefore -------------- *)
(* arr with its first entry equal to x taken out.                          *)
withoutFirst(arr, x) ==
    LET i == CHOOSE k \in 1..Len(arr) :
                 arr[k] = x /\ \A j \in 1..(k - 1) : arr[j] # x
    IN  [k \in 1..(Len(arr) - 1) |-> IF k < i THEN arr[k] ELSE arr[k + 1]]

(* C18 (as stated): Tree.removeChild(n) with n top-level leaves n out of   *)
(* the top-level nodes and the flattened index untouched; with n only in   *)
(* the flattened index it leaves n out of the index; both set n.removed.   *)
(* With n in neither it signals NotFound and changes nothing.  It never    *)
(* notifies.                                                               *)
C18_RemovedFromThere ==
    [][ (last'.op = "VirtualDOM.removeChild") =>
          LET n   == last'.args[1]
              t   == last'.dom
              top == doms[t].directChildren
              all == doms[t].children
          IN  /\ last'.notified = <<>>
              /\ IF includes(top, n)
                 THEN /\ last'.thrown = ""
                      /\ ~includes(doms'[t].directChildren, n)
                      /\ doms'[t].children = all
                      /\ elements'[n].isRemoved
                 ELSE IF includes(all, n)
                 THEN /\ last'.thrown = ""
                      /\ ~includes(doms'[t].children, n)
                      /\ elements'[n].isRemoved
                 ELSE /\ last'.thrown = "NotFound"
                      /\ doms' = doms
                      /\ elements' = elements ]_vars

(* C18 (amended): Tree.removeChild(n) takes the first entry equal to n out *)
(* of the top-level nodes if there is one (flattened index untouched),     *)
(* else out of the flattened index if there is one, keeps every other      *)
(* entry (later entries equal to n included) in place, and sets n.removed; *)
(* with n in neither it signals NotFound and changes nothing.  It never    *)
(* notifies.                                                               *)
C18_DomRemoveChild ==
    [][ (last'.op = "VirtualDOM.removeChild") =>
          LET n   == last'.args[1]
              t   == last'.dom
              top == doms[t].directChildren
              all == doms[t].children
          IN  /\ last'.notified = <<>>
              /\ attrObjects' = attrObjects
              /\ IF includes(top, n)
                 THEN /\ last'.thrown = ""
                      /\ doms' = [doms EXCEPT ![t].directChildren = withoutFirst(top, n)]
                      /\ elements' = [elements EXCEPT ![n].isRemoved = TRUE]
                 ELSE IF includes(all, n)
                 THEN /\ last'.thrown = ""
                      /\ doms' = [doms EXCEPT ![t].children = withoutFirst(all, n)]
                      /\ elements' = [elements EXCEPT ![n].isRemoved = TRUE]
                 ELSE /\ last'.thrown = "NotFound"
                      /\ doms' = doms
                      /\ elements' = elements ]_vars

(* n was top-level twice: removed once, it is removed and still top-level. *)
C18_Witness ==
    /\ Completed("VirtualDOM.removeChild")
    /\ elements[last.args[1]].isRemoved
    /\ includes(doms[last.dom].directChildren, last.args[1])
    /\ ListenersOf(last.dom) # {}

(* C19: tree.insertBefore(n, ref) with n not removed places n immediately  *)
(* before ref when ref is top-level, the other entries keeping their       *)
(* order, and at position 0 of the top-level nodes when ref is not         *)
(* top-level; with n removed it changes nothing.                           *)
C19_InsertBefore ==
    [][ (last'.op = "VirtualDOM.insertBefore") =>
          LET n   == last'.args[1]
              ref == last'.args[2]
              t   == last'.dom
              top == doms[t].directChildren
          IN  /\ last'.thrown = ""
              /\ elements' = elements
              /\ attrObjects' = attrObjects
              /\ IF elements[n].isRemoved
                 THEN doms' = doms
                 ELSE IF includes(top, ref)
                 THEN \E i \in 1..Len(top) :
                          /\ top[i] = ref
                          /\ doms' = [doms EXCEPT ![t].directChildren =
                                 SubSeq(top, 1, i - 1) \o <<n>> \o SubSeq(top, i, Len(top))]
                 ELSE doms' = [doms EXCEPT ![t].directChildren = <<n>> \o top]
      ]_vars

(* ------------------------- VirtualDOM queries -------------------------- *)
(* Trees of elements of two tags with id and class attributes, and the     *)
(* four queries of VirtualDOM applied to them.                             *)
QueryTags == {"div", "span"}
QueryAttrNames == {"id", "class"}
QueryValues == {"a", "a b"}

(* arr.filter(...)[0]: undefined (None) when nothing passes the filter.    *)
first(arr) == IF arr = <<>> THEN None ELSE arr[1]

(* e.attributes[name] === value, false when the attribute is undefined.    *)
attributeIs(w, e, name, value) ==
    /\ name \in DOMAIN attributesOf(w, e)
    /\ attributesOf(w, e)[name] = value

(* A querySelectorAll that merges the matches of both collections. *)
VirtualDOM_querySelectorAll_merged(w, t, selector) ==
    SelectSeq(w.doms[t].directChildren, LAMBDA e : w.elements[e].tagName = selector)
        \o SelectSeq(w.doms[t].children, LAMBDA e : w.elements[e].tagName = selector)

(* VirtualDOM.querySelectorAll(selector) *)
VirtualDOM_querySelectorAll(w, t, selector) ==
    LET check == SelectSeq(w.doms[t].directChildren,
                           LAMBDA e : w.elements[e].tagName = selector)
    IN  IF Len(check) > 0 THEN check
        ELSE SelectSeq(w.doms[t].children, LAMBDA e : w.elements[e].tagName = selector)

(* VirtualDOM.querySelector(selector) *)
VirtualDOM_querySelector(w, t, selector) ==
    LET check == SelectSeq(w.doms[t].directChildren,
                           LAMBDA e : w.elements[e].tagName = selector)
    IN  IF Len(check) > 0 THEN check[1]
        ELSE first(SelectSeq(w.doms[t].children,
                             LAMBDA e : w.elements[e].tagName = selector))

(* VirtualDOM.getElementById(id) *)
VirtualDOM_getElementById(w, t, id) ==
    LET check == SelectSeq(w.doms[t].directChildren,
                           LAMBDA e : attributeIs(w, e, "id", id))
    IN  IF Len(check) > 0 THEN check[1]
        ELSE first(SelectSeq(w.doms[t].children,
                             LAMBDA e : attributeIs(w, e, "id", id)))

(* VirtualDOM.getElementsByClassName(className) *)
VirtualDOM_getElementsByClassName(w, t, className) ==
    LET check == SelectSeq(w.doms[t].directChildren,
                           LAMBDA e : attributeIs(w, e, "class", className))
    IN  IF Len(check) > 0 THEN check
        ELSE SelectSeq(w.doms[t].children,
                       LAMBDA e : attributeIs(w, e, "class", className))

(* A call that reads the tree and returns: nothing changes but `last`.     *)
Returned(op, t, args, returned) ==
    /\ last' = [op |-> op, dom |-> t, self |-> None, args |-> args,
                thrown |-> "", notified |-> <<>>, returned |-> returned]
    /\ UNCHANGED <<elements, attrObjects, doms, calls>>

CreateElementTagged ==
    \E t \in DOMAIN doms, tagName \in QueryTags :
        /\ Len(elements) < MaxNodes
        /\ elements' = VirtualDOM_createElement(World, t, tagName).elements
        /\ attrObjects' = VirtualDOM_createElement(World, t, tagName).attrObjects
        /\ last' = [op |-> "createElement", dom |-> t, self |-> None, args |-> <<tagName>>,
                    thrown |-> "", notified |-> <<>>]
        /\ UNCHANGED <<doms, calls>>

SetAttributeNamed ==
    \E self \in Nodes, name \in QueryAttrNames, value \in QueryValues :
        Return("setAttribute", domOf(World, self), self, <<name, value>>,
               VirtualElement_setAttribute(World, self, name, value))

QuerySelector ==
    \E t \in DOMAIN doms, selector \in QueryTags :
        Returned("VirtualDOM.querySelector", t, <<selector>>,
                 VirtualDOM_querySelector(World, t, selector))

QuerySelectorAll ==
    \E t \in DOMAIN doms, selector \in QueryTags :
        Returned("VirtualDOM.querySelectorAll", t, <<selector>>,
                 VirtualDOM_querySelectorAll(World, t, selector))

GetElementById ==
    \E t \in DOMAIN doms, id \in QueryValues \cup {"a "} :
        Returned("VirtualDOM.getElementById", t, <<id>>,
                 VirtualDOM_getElementById(World, t, id))

GetElementsByClassName ==
    \E t \in DOMAIN doms, className \in QueryValues \cup {"", "b"} :
        Returned("VirtualDOM.getElementsByClassName", t, <<className>>,
                 VirtualDOM_getElementsByClassName(World, t, className))

NextQueries ==
    \/ CreateElementTagged
    \/ SetAttributeNamed
    \/ DomAppendChild
    \/ AppendChild
    \/ QuerySelector
    \/ QuerySelectorAll
    \/ GetElementById
    \/ GetElementsByClassName

SpecQueries == Init /\ [][NextQueries]_vars

(* The entries of arr that satisfy Test, in the order of arr, found by     *)
(* position.                                                               *)
RECURSIVE matching(_, _, _)
matching(arr, Test(_), k) ==
    IF k > Len(arr) THEN <<>>
    ELSE (IF Test(arr[k]) THEN <<arr[k]>> ELSE <<>>) \o matching(arr, Test, k + 1)

(* The two-tier search: the matching top-level nodes if there are any,     *)
(* otherwise the matching entries of the flattened index.                  *)
twoTier(t, Test(_)) ==
    IF \E k \in 1..Len(doms[t].directChildren) : Test(doms[t].directChildren[k])
    THEN matching(doms[t].directChildren, Test, 1)
    ELSE matching(doms[t].children, Test, 1)

hasTag(e, tagName) == elements[e].tagName = tagName
hasAttribute(e, name, value) ==
    /\ name \in DOMAIN attrObjects[elements[e].attributes]
    /\ attrObjects[elements[e].attributes][name] = value

MaxEventNodes == 2
MaxEventListeners == 3
EventNames == {"click", "input"}

(* The callbacks a caller may register with addEventListener, by what they *)
(* do when called with (event):                                            *)
(*   "cb"       looks at the event and returns                             *)
(*   "stops"    event.stopPropagation()                                    *)
(*   "resumes"  event.bubbles = true                                       *)
EventCallbacks == {"cb", "stops", "resumes"}

(* new VirtualEvent(name, options): options.bubbles ?? true *)
VirtualEvent(name, options) ==
    [ type             |-> name,
      bubbles          |-> IF "bubbles" \in DOMAIN options THEN options.bubbles ELSE TRUE,
      defaultPrevented |-> FALSE,
      target           |-> None ]

(* The option objects of the events dispatched: {}, {bubbles: true},       *)
(* {bubbles: false}.                                                       *)
EventOptions == {[k \in {} |-> TRUE]} \cup {[bubbles |-> b] : b \in BOOLEAN}

(* VirtualEvent.stopPropagation() *)
stopPropagation(event) == [event EXCEPT !.bubbles = FALSE]

(* callback(event): the event as the callback leaves it. *)
invokeEventListener(cb, event) ==
    IF cb = "stops" THEN stopPropagation(event)
    ELSE IF cb = "resumes" THEN [event EXCEPT !.bubbles = TRUE]
    ELSE event

(* addEventListener(eventName, callback) *)
VirtualElement_addEventListener(w, self, eventName, callback) ==
    LET listeners == w.elements[self].eventListeners
        created   == IF eventName \in DOMAIN listeners THEN listeners
                     ELSE [k \in DOMAIN listeners \cup {eventName} |->
                              IF k = eventName THEN <<>> ELSE listeners[k]]
    IN  [w EXCEPT !.elements[self].eventListeners =
                      [created EXCEPT ![eventName] = push(@, callback)]]

(* removeEventListener that takes out one registration of the callback. *)
VirtualElement_removeEventListener_once(w, self, eventName, callback) ==
    IF eventName \notin DOMAIN w.elements[self].eventListeners
    THEN throw(w, "TypeError")
    ELSE [w EXCEPT !.elements[self].eventListeners[eventName] =
                       IF includes(@, callback)
                       THEN splice(@, indexOf(@, callback), 1, <<>>) ELSE @]

(* removeEventListener(eventName, callback): filter of a list that was     *)
(* never created is a TypeError.                                           *)
VirtualElement_removeEventListener(w, self, eventName, callback) ==
    IF eventName \notin DOMAIN w.elements[self].eventListeners
    THEN throw(w, "TypeError")
    ELSE [w EXCEPT !.elements[self].eventListeners[eventName] =
                       SelectSeq(@, LAMBDA e : e # callback)]

(* The loop of dispatchEvent that goes on whatever event.bubbles is. *)
RECURSIVE forOfListeners_all(_, _, _, _)
forOfListeners_all(listeners, event, i, invoked) ==
    IF i > Len(listeners) THEN [event |-> event, invoked |-> invoked]
    ELSE LET after == invokeEventListener(listeners[i], event)
         IN  forOfListeners_all(listeners, after, i + 1,
                 Append(invoked, [listener |-> i, callback |-> listeners[i],
                                  given |-> event, bubbles |-> after.bubbles]))

(* for (const callback of listeners) { callback(event); if                 *)
(* (!event.bubbles) break; } from the i-th listener on; `invoked` records  *)
(* each call: the listener, the event it was given and event.bubbles when  *)
(* it returned.                                                            *)
RECURSIVE forOfListeners(_, _, _, _)
forOfListeners(listeners, event, i, invoked) ==
    IF i > Len(listeners) THEN [event |-> event, invoked |-> invoked]
    ELSE LET after == invokeEventListener(listeners[i], event)
             calls1 == Append(invoked, [listener |-> i, callback |-> listeners[i],
                                        given |-> event, bubbles |-> after.bubbles])
         IN  IF ~after.bubbles THEN [event |-> after, invoked |-> calls1]
             ELSE forOfListeners(listeners, after, i + 1, calls1)

(* dispatchEvent(event): the event afterwards, the calls made and the      *)
(* error thrown; iterating a list that was never created is a TypeError.   *)
VirtualElement_dispatchEvent(w, self, event) ==
    LET targeted == [event EXCEPT !.target = self]
    IN  IF event.type \notin DOMAIN w.elements[self].eventListeners
        THEN [event |-> targeted, invoked |-> <<>>, thrown |-> "TypeError"]
        ELSE [thrown |-> ""] @@
             forOfListeners(w.elements[self].eventListeners[event.type], targeted, 1, <<>>)

(* The number of callbacks registered on the elements of the heap. *)
RECURSIVE registered(_, _)
registered(listeners, names) ==
    IF names = {} THEN 0
    ELSE LET k == CHOOSE x \in names : TRUE
         IN  Len(listeners[k]) + registered(listeners, names \ {k})

registrations ==
    Sum([n \in 1..Len(elements) |->
            registered(elements[n].eventListeners, DOMAIN elements[n].eventListeners)])

CreateEventTarget ==
    /\ CreateElement
    /\ Len(elements') <= MaxEventNodes

AddEventListener ==
    \E self \in Nodes, eventName \in EventNames, callback \in EventCallbacks :
        /\ registrations < MaxEventListeners
        /\ elements' = VirtualElement_addEventListener(World, self, eventName, callback).elements
        /\ last' = [op |-> "addEventListener", dom |-> domOf(World, self), self |-> self,
                    args |-> <<eventName, callback>>, thrown |-> "", notified |-> <<>>]
        /\ UNCHANGED <<attrObjects, doms, calls>>

RemoveEventListener ==
    \E self \in Nodes, eventName \in EventNames, callback \in EventCallbacks :
        LET w == VirtualElement_removeEventListener(World, self, eventName, callback)
        IN  /\ elements' = w.elements
            /\ last' = [op |-> "removeEventListener", dom |-> domOf(World, self),
                        self |-> self, args |-> <<eventName, callback>>,
                        thrown |-> w.thrown, notified |-> <<>>]
            /\ UNCHANGED <<attrObjects, doms, calls>>

DispatchEvent ==
    \E self \in Nodes, name \in EventNames, options \in EventOptions :
        LET r == VirtualElement_dispatchEvent(World, self, VirtualEvent(name, options))
        IN  /\ last' = [op |-> "dispatchEvent", dom |-> domOf(World, self), self |-> self,
                        args |-> <<VirtualEvent(name, options)>>, thrown |-> r.thrown,
                        notified |-> <<>>, event |-> r.event, invoked |-> r.invoked]
            /\ UNCHANGED <<elements, attrObjects, doms, calls>>

NextEvents ==
    \/ CreateEventTarget
    \/ AddEventListener
    \/ RemoveEventListener
    \/ DispatchEvent

SpecEvents == Init /\ [][NextEvents]_vars

MaxShadows == 2
ShadowNames == <<"shadow1", "shadow2", "shadow3", "shadow4">>
ShadowModes == {"open", "closed"}
ShadowOptions == {undefined} \cup {<<[mode |-> m]>> : m \in ShadowModes}

(* new VirtualDOM(): the reference of the object created. *)
newVirtualDOM(w) == ShadowNames[Cardinality(DOMAIN w.doms \ DomNames) + 1]

(* An attachShadow that keeps the nested tree the element has. *)
VirtualElement_attachShadow_once(w, self, options) ==
    IF w.elements[self].shadow # NoDOM THEN w
    ELSE [w EXCEPT !.doms = [t \in DOMAIN @ \cup {newVirtualDOM(w)} |->
                                IF t = newVirtualDOM(w) THEN NewDOM ELSE @[t]],
                   !.elements[self].shadow = newVirtualDOM(w),
                   !.elements[self].shadowOptions =
                       IF options = undefined THEN <<[mode |-> "open"]>> ELSE options]

(* attachShadow(options); it returns the element's #shadow. *)
VirtualElement_attachShadow(w, self, options) ==
    [w EXCEPT !.doms = [t \in DOMAIN @ \cup {newVirtualDOM(w)} |->
                           IF t = newVirtualDOM(w) THEN NewDOM ELSE @[t]],
              !.elements[self].shadow = newVirtualDOM(w),
              !.elements[self].shadowOptions =
                  IF options = undefined THEN <<[mode |-> "open"]>> ELSE options]

(* get shadowRoot(): null is NoDOM. *)
VirtualElement_shadowRoot(w, self) ==
    LET shadowOptions == w.elements[self].shadowOptions
    IN  IF shadowOptions # undefined /\ shadowOptions[1].mode = "open"
        THEN w.elements[self].shadow
        ELSE NoDOM

AttachShadow ==
    \E self \in Nodes, options \in ShadowOptions :
        LET w == VirtualElement_attachShadow(World, self, options)
        IN  /\ Cardinality(DOMAIN doms \ DomNames) < MaxShadows
            /\ elements' = w.elements
            /\ doms' = w.doms
            /\ last' = [op |-> "attachShadow", dom |-> domOf(World, self), self |-> self,
                        args |-> <<options>>, thrown |-> "", notified |-> <<>>,
                        returned |-> w.elements[self].shadow]
            /\ UNCHANGED <<attrObjects, calls>>

ShadowRoot ==
    \E self \in Nodes :
        /\ last' = [op |-> "shadowRoot", dom |-> domOf(World, self), self |-> self,
                    args |-> <<>>, thrown |-> "", notified |-> <<>>,
                    returned |-> VirtualElement_shadowRoot(World, self)]
        /\ UNCHANGED <<elements, attrObjects, doms, calls>>

NextShadow ==
    \/ CreateElement
    \/ AttachShadow
    \/ ShadowRoot
    \/ DomAppendChild
    \/ CloneNode

SpecShadow == Init /\ [][NextShadow]_vars

(* The tree a call of attachShadow with these options makes shadowRoot     *)
(* return: the tree attached when the mode is open or no options are       *)
(* given, null when it is closed.                                          *)
visible(options, tree) ==
    IF options = undefined \/ options[1].mode = "open" THEN tree ELSE NoDOM

(* C15: attachShadow(options) returns a new, empty tree: not the node's    *)
(* owning tree, not a tree attached before, and no existing tree changes.  *)
(* From then on shadowRoot of the node is that tree if the mode is open    *)
(* (or no options were given) and null if it is closed, until the next     *)
(* attachShadow on the node; shadowRoot of a node on which attachShadow    *)
(* was never called (a new element, a clone) is null.                      *)
C15_ShadowRoot ==
    [][ LET shadowRoot(n)  == VirtualElement_shadowRoot(World, n)
            shadowRoot1(n) == VirtualElement_shadowRoot(
                                  [elements |-> elements', doms |-> doms'], n)
        IN  /\ last'.op = "attachShadow" =>
                   LET self == last'.self
                       tree == last'.returned
                   IN  /\ tree \notin DOMAIN doms
                       /\ tree # elements[self].parentDocument
                       /\ \A n \in Nodes : tree # elements[n].shadow
                       /\ tree \in DOMAIN doms'
                       /\ doms'[tree].directChildren = <<>>
                       /\ doms'[tree].children = <<>>
                       /\ doms'[tree].treeChangeListeners = <<>>
                       /\ \A t \in DOMAIN doms : doms'[t] = doms[t]
                       /\ shadowRoot1(self) = visible(last'.args[1], tree)
                       /\ \A n \in Nodes \ {self} : shadowRoot1(n) = shadowRoot(n)
            /\ last'.op # "attachShadow" =>
                   /\ \A n \in Nodes : shadowRoot1(n) = shadowRoot(n)
                   /\ \A n \in (1..Len(elements')) \ Nodes : shadowRoot1(n) = NoDOM
            /\ (last'.op = "shadowRoot" /\ last.op = "attachShadow"
                    /\ last'.self = last.self) =>
                   last'.returned = visible(last.args[1], last.returned)
      ]_vars

(* A second attachShadow on a node whose first nested tree has a child:    *)
(* the tree returned is another one, and empty.                            *)
C15_Witness ==
    /\ last.op = "attachShadow"
    /\ last.returned = "shadow2"
    /\ last.args = <<undefined>>
    /\ doms["shadow1"].directChildren # <<>>
    /\ doms["shadow2"].directChildren = <<>>
    /\ VirtualElement_shadowRoot(World, last.self) = "shadow2"
    /\ \A n \in Nodes : elements[n].shadow # "shadow1"

(* ------------------------------ classList ------------------------------ *)
(* Strings whose characters matter are sequences of characters.            *)
MaxClassLen == 4
Letters == {"a", "b"}

RECURSIVE StringsUpTo(_, _)
StringsUpTo(alphabet, n) ==
    IF n = 0 THEN {<<>>}
    ELSE LET shorter == StringsUpTo(alphabet, n - 1)
         IN  shorter \cup {Append(str, c) : str \in shorter, c \in alphabet}

(* The values of the class attribute the elements start with, and the      *)
(* class tokens passed to classList.                                       *)
ClassStrings == StringsUpTo(Letters \cup {" "}, MaxClassLen)
ClassTokens == StringsUpTo(Letters, 2) \ {<<>>}

(* String.prototype.indexOf(pattern), 1-based, 0 when absent. *)
stringIndexOf(str, pattern) ==
    LET at == {i \in 1..(Len(str) - Len(pattern) + 1) :
                  SubSeq(str, i, i + Len(pattern) - 1) = pattern}
    IN  IF at = {} THEN 0 ELSE CHOOSE i \in at : \A j \in at : i <= j

(* String.prototype.replace(pattern, replacement) with a string pattern:   *)
(* the first occurrence only.                                              *)
replace(str, pattern, replacement) ==
    LET i == stringIndexOf(str, pattern)
    IN  IF i = 0 THEN str
        ELSE SubSeq(str, 1, i - 1) \o replacement
                 \o SubSeq(str, i + Len(pattern), Len(str))

(* String.prototype.trimStart() *)
RECURSIVE trimStart(_)
trimStart(str) ==
    IF str # <<>> /\ Head(str) = " " THEN trimStart(Tail(str)) ELSE str

(* String.prototype.split(separator), a one-character separator *)
RECURSIVE split(_, _)
split(str, separator) ==
    LET i == stringIndexOf(str, <<separator>>)
    IN  IF i = 0 THEN <<str>>
        ELSE <<SubSeq(str, 1, i - 1)>> \o split(SubSeq(str, i + 1, Len(str)), separator)

(* Array.prototype.join(separator) *)
RECURSIVE join(_, _)
join(arr, separator) ==
    IF arr = <<>> THEN <<>>
    ELSE IF Len(arr) = 1 THEN arr[1]
    ELSE arr[1] \o separator \o join(Tail(arr), separator)

(* get classList(): the classNames of the classListArray it constructs. *)
VirtualElement_classList(w, self) ==
    IF "class" \in DOMAIN attributesOf(w, self)
    THEN split(attributesOf(w, self)["class"], " ")
    ELSE <<>>

(* classListArray.add(classes): two setAttribute calls. *)
classListArray_add(w, self, classes) ==
    LET w1 == VirtualElement_setAttribute(w, self, "class",
                  attributesOf(w, self)["class"] \o <<" ">> \o classes)
    IN  IF w1.thrown # "" THEN w1
        ELSE VirtualElement_setAttribute(w1, self, "class",
                 trimStart(attributesOf(w1, self)["class"]))

(* classListArray.remove(classes): two setAttribute calls. *)
classListArray_remove(w, self, classes) ==
    LET w1 == VirtualElement_setAttribute(w, self, "class",
                  replace(attributesOf(w, self)["class"], classes, <<>>))
    IN  IF w1.thrown # "" THEN w1
        ELSE VirtualElement_setAttribute(w1, self, "class",
                 trimStart(attributesOf(w1, self)["class"]))

(* classListArray.includes(className) *)
classListArray_includes(classNames, className) == includes(classNames, className)

(* classListArray.toString() *)
classListArray_toString(classNames) == join(classNames, <<" ">>)

(* dom.createElement("div") followed by setAttribute("class", str). *)
InitClassList ==
    \E str \in ClassStrings :
        /\ elements = <<NewElement("div", "dom", 1)>>
        /\ attrObjects = <<[k \in {"class"} |-> str]>>
        /\ doms = [t \in DomNames |-> NewDOM]
        /\ last = [op |-> "setAttribute", dom |-> "dom", self |-> 1,
                   args |-> <<"class", str>>, thrown |-> "", notified |-> <<>>]
        /\ calls = 0

ClassListAdd ==
    \E self \in Nodes, classes \in ClassTokens :
        Return("classList.add", domOf(World, self), self, <<classes>>,
               classListArray_add(World, self, classes))

ClassListRemove ==
    \E self \in Nodes, classes \in ClassTokens :
        Return("classList.remove", domOf(World, self), self, <<classes>>,
               classListArray_remove(World, self, classes))

ClassListIncludes ==
    \E self \in Nodes, className \in ClassTokens :
        /\ last' = [op |-> "classList.includes", dom |-> domOf(World, self),
                    self |-> self, args |-> <<className>>, thrown |-> "",
                    notified |-> <<>>,
                    returned |-> classListArray_includes(
                                     VirtualElement_classList(World, self), className)]
        /\ UNCHANGED <<elements, attrObjects, doms, calls>>

ClassListToString ==
    \E self \in Nodes :
        /\ last' = [op |-> "classList.toString", dom |-> domOf(World, self),
                    self |-> self, args |-> <<>>, thrown |-> "", notified |-> <<>>,
                    returned |-> classListArray_toString(
                                     VirtualElement_classList(World, self))]
        /\ UNCHANGED <<elements, attrObjects, doms, calls>>

NextClassList ==
    \/ ClassListAdd
    \/ ClassListRemove
    \/ ClassListIncludes
    \/ ClassListToString

SpecClassList == InitClassList /\ [][NextClassList]_vars

(* The class tokens of a class attribute value: its maximal runs of        *)
(* characters other than the space, in order.                              *)
classTokens(str) == SelectSeq(split(str, " "), LAMBDA token : token # <<>>)

(* C16: after classList.add(c), classList.includes(c) is true; after       *)
(* classList.remove(c), classList.includes(c) is false and the other class *)
(* tokens of the element are the ones it had; classList.toString() is the  *)
(* class tokens of the element joined by single spaces.                    *)
C16_ClassList ==
    [][ LET self    == last'.self
            before  == attributesOf(World, self)["class"]
            after   == attrObjects'[elements'[self].attributes]["class"]
            heaps1  == [elements |-> elements', attrObjects |-> attrObjects']
        IN  /\ (last'.op = "classList.add" /\ last'.thrown = "") =>
                   classListArray_includes(VirtualElement_classList(heaps1, self),
                                           last'.args[1])
            /\ (last'.op = "classList.remove" /\ last'.thrown = "") =>
                   /\ ~classListArray_includes(VirtualElement_classList(heaps1, self),
                                               last'.args[1])
                   /\ without(classTokens(after), last'.args[1])
                          = without(classTokens(before), last'.args[1])
            /\ last'.op = "classList.toString" =>
                   last'.returned = join(classTokens(before), <<" ">>)
      ]_vars

(* ------------------------------- dataset ------------------------------- *)
(* Elements with data-* attributes.  An attribute name is a string, and    *)
(* `spelling` gives its characters.  The names are lower-case and no two   *)
(* of them give the same property name, so the order in which the getter   *)
(* walks the attributes does not matter.                                   *)
MaxDatasetNodes == 1
DataAttrNames == {"data-test", "data-a-b", "data-a-"}
DataValues == {"test", "x"}

spelling ==
    [ name \in DataAttrNames \cup {"class"} |->
        CASE name = "data-test" -> <<"d", "a", "t", "a", "-", "t", "e", "s", "t">>
          [] name = "data-a-b"  -> <<"d", "a", "t", "a", "-", "a", "-", "b">>
          [] name = "data-a-"   -> <<"d", "a", "t", "a", "-", "a", "-">>
          [] name = "class"     -> <<"c", "l", "a", "s", "s">> ]

(* The result of reading a property or an attribute that does not exist.   *)
NoValue == "undefined"

(* String.prototype.startsWith, slice(start), and toUpperCase of one       *)
(* character.                                                              *)
startsWith(str, prefix) ==
    Len(str) >= Len(prefix) /\ SubSeq(str, 1, Len(prefix)) = prefix
slice(str, start) == SubSeq(str, start + 1, Len(str))
toUpperCase(c) ==
    CASE c = "a" -> "A" [] c = "b" -> "B" [] c = "d" -> "D" [] c = "e" -> "E"
      [] c = "s" -> "S" [] c = "t" -> "T" [] OTHER -> c

(* The terms of the name of a data-* attribute: ky.slice(5).split("-"). *)
terms(ky) == split(slice(spelling[ky], 5), "-")

(* term[0].toUpperCase() of an empty term is a TypeError. *)
termFails(ky) == \E i \in 2..Len(terms(ky)) : terms(ky)[i] = <<>>

(* The property name the getter derives: the first term, then every other  *)
(* term with its first character in upper case, joined (of a name with an  *)
(* empty term, for which the getter throws: the other terms so joined).    *)
propertyName(ky) ==
    join([i \in 1..Len(terms(ky)) |->
             IF i = 1 \/ terms(ky)[i] = <<>> THEN terms(ky)[i]
             ELSE <<toUpperCase(Head(terms(ky)[i]))>> \o Tail(terms(ky)[i])], <<>>)

(* get dataset(): the error it throws and, for each property it defines,   *)
(* the attribute the property's accessors read and write.                  *)
VirtualElement_dataset(w, self) ==
    LET keys == {ky \in DOMAIN attributesOf(w, self) :
                    startsWith(spelling[ky], <<"d", "a", "t", "a", "-">>)}
    IN  IF \E ky \in keys : termFails(ky)
        THEN [thrown |-> "TypeError", attrs |-> <<>>]
        ELSE [thrown |-> "",
              attrs  |-> [name \in {propertyName(ky) : ky \in keys} |->
                            CHOOSE ky \in keys : propertyName(ky) = name]]

(* getAttribute(name) *)
VirtualElement_getAttribute(w, self, name) ==
    IF name \in DOMAIN attributesOf(w, self) THEN attributesOf(w, self)[name] ELSE NoValue

(* el.dataset[name] *)
readDataset(w, self, name) ==
    LET dataset == VirtualElement_dataset(w, self)
    IN  IF dataset.thrown # "" THEN [thrown |-> dataset.thrown, returned |-> NoValue]
        ELSE IF name \in DOMAIN dataset.attrs
        THEN [thrown |-> "", returned |-> VirtualElement_getAttribute(w, self, dataset.attrs[name])]
        ELSE [thrown |-> "", returned |-> NoValue]

(* el.dataset[name] = v: the property's setter calls setAttribute; a name  *)
(* that is not a property of the object the getter returned is set on that *)
(* object only.                                                            *)
assignDataset(w, self, name, v) ==
    LET dataset == VirtualElement_dataset(w, self)
    IN  IF dataset.thrown # "" THEN throw(w, dataset.thrown)
        ELSE IF name \in DOMAIN dataset.attrs
        THEN VirtualElement_setAttribute(w, self, dataset.attrs[name], v)
        ELSE w

(* The property names read and assigned. *)
DatasetNames == {propertyName(ky) : ky \in DataAttrNames}

CreateDatasetElement ==
    /\ CreateElement
    /\ Len(elements') <= MaxDatasetNodes

SetDataAttribute ==
    \E self \in Nodes, name \in DataAttrNames, value \in DataValues :
        Return("setAttribute", domOf(World, self), self, <<name, value>>,
               VirtualElement_setAttribute(World, self, name, value))

RemoveDataAttribute ==
    \E self \in Nodes, name \in DataAttrNames :
        Return("removeAttribute", domOf(World, self), self, <<name>>,
               VirtualElement_removeAttribute(World, self, name))

ReadDataset ==
    \E self \in Nodes, name \in DatasetNames :
        /\ last' = [op |-> "dataset[]", dom |-> domOf(World, self), self |-> self,
                    args |-> <<name>>, notified |-> <<>>,
                    thrown |-> readDataset(World, self, name).thrown,
                    returned |-> readDataset(World, self, name).returned]
        /\ UNCHANGED <<elements, attrObjects, doms, calls>>

AssignDataset ==
    \E self \in Nodes, name \in DatasetNames, v \in DataValues :
        Return("dataset[]=", domOf(World, self), self, <<name, v>>,
               assignDataset(World, self, name, v))

NextDataset ==
    \/ CreateDatasetElement
    \/ OnTreeChange
    \/ SetDataAttribute
    \/ RemoveDataAttribute
    \/ ReadDataset
    \/ AssignDataset

SpecDataset == Init /\ [][NextDataset]_vars

(* The data-* attributes of n whose property name is `name`. *)
dataAttributes(n, name) ==
    {ky \in DOMAIN attributesOf(World, n) \cap DataAttrNames : propertyName(ky) = name}

(* C17: for an attribute data-<k> of the element, reading                  *)
(* dataset[camelCase(k)] returns the value of the attribute, and assigning *)
(* x to it sets the attribute to x by one setAttribute (one notification   *)
(* to each listener) and leaves the other attributes unchanged.            *)
C17_Dataset ==
    [][ /\ last'.op = "dataset[]" =>
               \A ky \in dataAttributes(last'.self, last'.args[1]) :
                   /\ last'.thrown = ""
                   /\ last'.returned = attributesOf(World, last'.self)[ky]
        /\ last'.op = "dataset[]=" =>
               \A ky \in dataAttributes(last'.self, last'.args[1]) :
                   /\ last'.thrown = ""
                   /\ attrObjects'[elements'[last'.self].attributes] =
                          [attributesOf(World, last'.self) EXCEPT ![ky] = last'.args[2]]
                   /\ \A i \in ListenersOf(last'.dom) :
                          Len(DeliveriesTo(last', last'.dom, i)) = 1
      ]_vars

(* C21: parent.replaceChild(newChild, oldChild) with oldChild not in        *)
(* parent.children signals NotFound, notifies nobody and changes nothing;   *)
(* otherwise newChild takes oldChild's position in parent.children and in   *)
(* the tree's flattened index, both keep their length, oldChild is in       *)
(* neither afterwards and newChild.parent is parent.                        *)
C21_ReplaceChild ==
    [][ (last'.op = "replaceChild") =>
          LET parent   == last'.self
              newChild == last'.args[1]
              oldChild == last'.args[2]
              t        == last'.dom
              kids     == elements[parent].children
              all      == doms[t].children
              kids2    == elements'[parent].children
              all2     == doms'[t].children
          IN  IF ~includes(kids, oldChild)
              THEN /\ last'.thrown = "NotFound"
                   /\ last'.notified = <<>>
                   /\ elements' = elements
                   /\ attrObjects' = attrObjects
                   /\ doms' = doms
              ELSE /\ last'.thrown = ""
                   /\ Len(kids2) = Len(kids)
                   /\ Len(all2) = Len(all)
                   /\ \E i \in 1..Len(kids) : kids[i] = oldChild /\ kids2[i] = newChild
                   /\ \E j \in 1..Len(all) : all[j] = oldChild /\ all2[j] = newChild
                   /\ newChild # oldChild =>
                          ~includes(kids2, oldChild) /\ ~includes(all2, oldChild)
                   /\ elements'[newChild].parent = parent
      ]_vars

(* arr with x inserted immediately before an occurrence of y.               *)
insertedBefore(arr, x, y) ==
    {SubSeq(arr, 1, i - 1) \o <<x>> \o SubSeq(arr, i, Len(arr)) :
        i \in {k \in 1..Len(arr) : arr[k] = y}}

(* C22: self.prepend(n) inserts n immediately before self in the top-level *)
(* nodes when self is top-level; else, when self is a child of a parent p, *)
(* immediately before self in p.children and in the flattened index; a     *)
(* node that is neither (one removed from its parent included) gets        *)
(* NoParent, no notification and no collection changed.                    *)
C22_Prepend ==
    [][ (last'.op = "prepend") =>
          LET self == last'.self
              n    == last'.args[1]
              t    == last'.dom
              top  == doms[t].directChildren
              all  == doms[t].children
          IN  IF includes(top, self)
              THEN /\ last'.thrown = ""
                   /\ doms'[t].directChildren \in insertedBefore(top, n, self)
              ELSE IF parentsOf(elements, self) # {}
              THEN /\ last'.thrown = ""
                   /\ \E p \in parentsOf(elements, self) :
                          elements'[p].children \in
                              insertedBefore(elements[p].children, n, self)
                   /\ doms'[t].children \in insertedBefore(all, n, self)
              ELSE /\ last'.thrown = "NoParent"
                   /\ last'.notified = <<>>
                   /\ doms' = doms
                   /\ \A m \in Nodes : elements'[m].children = elements[m].children
      ]_vars

(* C26: createElement(tag) never fails and yields a new node bound to the  *)
(* tree, not removed, without children or parent, its class attribute "";  *)
(* both collections and every existing node stay as they were, nobody is   *)
(* notified, and the new node is in neither collection.                    *)
C26_CreateElement ==
    [][ (last'.op = "createElement") =>
          LET n == Len(elements) + 1
              t == last'.dom
          IN  /\ last'.thrown = ""
              /\ last'.notified = <<>>
              /\ Len(elements') = n
              /\ elements'[n].tagName = last'.args[1]
              /\ elements'[n].parentDocument = t
              /\ ~elements'[n].isRemoved
              /\ elements'[n].children = <<>>
              /\ elements'[n].parent = None
              /\ attrObjects'[elements'[n].attributes]["class"] = ""
              /\ doms' = doms
              /\ \A m \in Nodes :
                     /\ elements'[m] = elements[m]
                     /\ attrObjects'[elements'[m].attributes] = attributesOf(World, m)
                     /\ elements'[m].attributes # elements'[n].attributes
              /\ \A d \in DOMAIN doms' :
                     /\ ~includes(doms'[d].directChildren, n)
                     /\ ~includes(doms'[d].children, n)
      ]_vars

(* An element was created in a tree that has a listener, a top-level node  *)
(* and an indexed descendant.                                              *)
C26_Witness ==
    /\ Completed("createElement")
    /\ \E t \in DOMAIN doms :
           /\ last.dom = t
           /\ doms[t].treeChangeListeners # <<>>
           /\ doms[t].directChildren # <<>>
           /\ elements[Len(elements)].parentDocument = t
           /\ ~attachedOrRemoved(Len(elements))

(* ----------------------------- cloning --------------------------------- *)
(* The operations of Spec with room in the heap for the clone of an        *)
(* element that has a child.                                               *)
MaxCloneNodes == 4

CloneNodeDeep ==
    \E self \in Nodes, deep \in BOOLEAN :
        /\ Len(elements) + cloneSize(cloneNode(World, self, FALSE)) <= MaxCloneNodes
        /\ ~overflows(World, self) =>
               Len(elements) + cloneSize(cloneNode(World, self, deep)) <= MaxCloneNodes
        /\ Return("cloneNode", domOf(World, self), self, <<deep>>,
                  VirtualElement_cloneNode(World, self, deep))

NextClone ==
    \/ CreateElement
    \/ OnTreeChange
    \/ DomRemoveChild
    \/ DomAppendChild
    \/ DomInsertBefore
    \/ DomReplaceChild
    \/ SetAttribute
    \/ RemoveAttribute
    \/ AppendChild
    \/ ReplaceChild
    \/ Prepend
    \/ Remove
    \/ RemoveChild
    \/ SetFirstChild
    \/ SetLastChild
    \/ SetInnerText
    \/ CloneNodeDeep

SpecClone == Init /\ [][NextClone]_vars

(* The elements a call of cloneNode added to the heap.                     *)
clonesOf(els, els2) == (1..Len(els2)) \ (1..Len(els))

(* C27: cloneNode, deep or shallow, notifies nobody and leaves both        *)
(* collections and every existing node's children, parent and removed flag *)
(* unchanged; the clone and the nodes cloned under it are in no tree's     *)
(* collection, and the snapshot a mutation takes never enters one either:  *)
(* after a mutation the collections hold only nodes that existed before.   *)
C27_CloneNode ==
    [][ /\ (last'.op = "cloneNode") =>
               /\ last'.notified = <<>>
               /\ doms' = doms
               /\ \A m \in Nodes :
                      /\ elements'[m].children = elements[m].children
                      /\ elements'[m].parent = elements[m].parent
                      /\ elements'[m].isRemoved = elements[m].isRemoved
               /\ \A c \in clonesOf(elements, elements'), t \in DOMAIN doms' :
                      /\ ~includes(doms'[t].directChildren, c)
                      /\ ~includes(doms'[t].children, c)
        /\ (last'.op \in MutationOps) =>
               /\ clonesOf(elements, elements') = {}
               /\ \A t \in DOMAIN doms' :
                      /\ Range(doms'[t].directChildren) \subseteq Nodes
                      /\ Range(doms'[t].children) \subseteq Nodes
      ]_vars

(* A listened-to element of the tree that has a child was cloned deeply:   *)
(* the clone and the clone of the child are new elements.                  *)
C27_Witness ==
    /\ Completed("cloneNode")
    /\ last.args = <<TRUE>>
    /\ elements[last.self].children # <<>>
    /\ doms[last.dom].treeChangeListeners # <<>>
    /\ \/ includes(doms[last.dom].directChildren, last.self)
       \/ includes(doms[last.dom].children, last.self)
    /\ \E c \in Nodes :
           /\ c > last.self
           /\ Len(elements[c].children) = Len(elements[last.self].children)
           /\ \A k \in 1..Len(elements[c].children) :
                  /\ elements[c].children[k] > c
                  /\ parentsOf(elements, elements[c].children[k]) = {c}

(* C28: every node in a tree's flattened index is a proper descendant,     *)
(* through children, of one of the tree's top-level nodes.                 *)
C28_IndexedIsReachable ==
    \A t \in DOMAIN doms :
        \A n \in Range(doms[t].children) :
            \E top \in Range(doms[t].directChildren) :
                n \in descendants(World, top)

(* C29: a node's parentDocument never changes, and every node in a tree's  *)
(* top-level nodes or flattened index was created by that tree.            *)
C29_OwnedByItsTree ==
    [][ /\ \A n \in Nodes : elements'[n].parentDocument = elements[n].parentDocument
        /\ \A t \in DOMAIN doms' :
               \A n \in Range(doms'[t].directChildren) \cup Range(doms'[t].children) :
                   elements'[n].parentDocument = t
      ]_vars

(* C30: parent agrees with membership: a child of p has parent p, and a    *)
(* top-level node has no parent.                                           *)
C30_ParentConsistent ==
    /\ \A p \in Nodes : \A c \in childSet(World, p) : elements[c].parent = p
    /\ \A t \in DOMAIN doms :
           \A c \in Range(doms[t].directChildren) : elements[c].parent = None

(* ----------------------- VirtualElement queries ------------------------ *)
(* A query of an element yields what it returned and what it threw; a      *)
(* recursion through a cycle of children never ends and exhausts the call  *)
(* stack (RangeError).                                                     *)
result(returned) == [returned |-> returned, thrown |-> ""]
stackOverflow == [returned |-> <<>>, thrown |-> "RangeError"]

(* hasAttribute(name): this.attributes.hasOwnProperty(name) *)
VirtualElement_hasAttribute(w, self, name) == name \in DOMAIN attributesOf(w, self)

(* The closure r of querySelectorAll("*") in post-order. *)
RECURSIVE r_postOrder(_, _)
r_postOrder(w, c) ==
    Concat([i \in 1..Len(w.elements[c].children) |->
               r_postOrder(w, w.elements[c].children[i])]) \o <<c>>

(* The closure r of querySelectorAll("*"): arr.push(c), then r(child) for  *)
(* every child of c.                                                       *)
RECURSIVE r(_, _)
r(w, c) ==
    <<c>> \o Concat([i \in 1..Len(w.elements[c].children) |->
                        r(w, w.elements[c].children[i])])

(* querySelectorAll(selector): for "*" r(c) for every child; for a tag the *)
(* children of that tag (the closure that would search deeper is defined   *)
(* only when no child matches, and is never called).                       *)
VirtualElement_querySelectorAll(w, self, selector) ==
    IF selector = "*"
    THEN IF overflows(w, self) THEN stackOverflow
         ELSE result(Concat([i \in 1..Len(w.elements[self].children) |->
                                r(w, w.elements[self].children[i])]))
    ELSE result(SelectSeq(w.elements[self].children,
                          LAMBDA e : w.elements[e].tagName = selector))

(* querySelector(selector): this.querySelectorAll(selector)[0] *)
VirtualElement_querySelector(w, self, selector) ==
    LET all == VirtualElement_querySelectorAll(w, self, selector)
    IN  IF all.thrown # "" THEN all ELSE result(first(all.returned))

(* getElementsByTagName(tagName): this.querySelectorAll(tagName) *)
VirtualElement_getElementsByTagName(w, self, tagName) ==
    VirtualElement_querySelectorAll(w, self, tagName)

(* $getElementsByAttribute(attributeName) *)
VirtualElement_getElementsByAttribute(w, self, attributeName) ==
    LET all == VirtualElement_querySelectorAll(w, self, "*")
    IN  IF all.thrown # "" THEN all
        ELSE result(SelectSeq(all.returned,
                 LAMBDA e : VirtualElement_hasAttribute(w, e, attributeName)))

(* $getElementByAttribute(attributeName) *)
VirtualElement_getElementByAttribute(w, self, attributeName) ==
    LET all == VirtualElement_getElementsByAttribute(w, self, attributeName)
    IN  IF all.thrown # "" THEN all ELSE result(first(all.returned))

(* getElementById(id) with the elements whose call is on the stack: val is *)
(* the first child with that id; without one, forEach assigns to val the   *)
(* result of every child in turn (the callback's return ends one           *)
(* iteration, not the loop), so the last child's result is returned.       *)
RECURSIVE getElementById(_, _, _, _)
getElementById(w, self, id, stack) ==
    LET children == w.elements[self].children
        val      == first(SelectSeq(children, LAMBDA e : attributeIs(w, e, "id", id)))
        vals     == [i \in 1..Len(children) |->
                        getElementById(w, children[i], id, stack \cup {self})]
    IN  IF val # None THEN result(val)
        ELSE IF self \in stack THEN stackOverflow
        ELSE IF \E i \in 1..Len(children) : vals[i].thrown # "" THEN stackOverflow
        ELSE IF children = <<>> THEN result(None)
        ELSE vals[Len(children)]

(* getElementById(id) *)
VirtualElement_getElementById(w, self, id) == getElementById(w, self, id, {})

(* Trees of up to MaxTreeNodes elements of two tags, built by appendChild  *)
(* until the flattened index has MaxTreeEdges entries, with the id         *)
(* attribute set on some of them, and the queries of an element.           *)
MaxTreeNodes == 3
MaxTreeEdges == 2
TreeIds == {"a"}
Selectors == QueryTags \cup {"*"}

(* A call of a mutation that is not counted. *)
Called(op, self, args, w) ==
    /\ elements' = w.elements
    /\ attrObjects' = w.attrObjects
    /\ doms' = w.doms
    /\ last' = [op |-> op, dom |-> domOf(World, self), self |-> self, args |-> args,
                thrown |-> w.thrown, notified |-> w.notified]
    /\ UNCHANGED calls

(* A query of self that returned or threw: nothing changes but `last`.     *)
Queried(op, self, args, res) ==
    /\ last' = [op |-> op, dom |-> domOf(World, self), self |-> self, args |-> args,
                thrown |-> res.thrown, notified |-> <<>>, returned |-> res.returned]
    /\ UNCHANGED <<elements, attrObjects, doms, calls>>

CreateTreeElement ==
    \E t \in DOMAIN doms, tagName \in QueryTags :
        /\ Len(elements) < MaxTreeNodes
        /\ elements' = VirtualDOM_createElement(World, t, tagName).elements
        /\ attrObjects' = VirtualDOM_createElement(World, t, tagName).attrObjects
        /\ doms' = VirtualDOM_createElement(World, t, tagName).doms
        /\ last' = [op |-> "createElement", dom |-> t, self |-> None, args |-> <<tagName>>,
                    thrown |-> "", notified |-> <<>>]
        /\ UNCHANGED calls

TreeAppendChild ==
    \E self \in Nodes, child \in Nodes :
        /\ Len(doms[domOf(World, self)].children) < MaxTreeEdges
        /\ Len(elements[self].children) < MaxTreeEdges
        /\ Called("appendChild", self, <<child>>,
                  VirtualElement_appendChild(World, self, child))

TreeSetAttribute ==
    \E self \in Nodes, value \in TreeIds :
        Called("setAttribute", self, <<"id", value>>,
               VirtualElement_setAttribute(World, self, "id", value))

ElementQuerySelectorAll ==
    \E self \in Nodes, selector \in Selectors :
        Queried("querySelectorAll", self, <<selector>>,
                VirtualElement_querySelectorAll(World, self, selector))

ElementQuerySelector ==
    \E self \in Nodes, selector \in Selectors :
        Queried("querySelector", self, <<selector>>,
                VirtualElement_querySelector(World, self, selector))

GetElementsByTagName ==
    \E self \in Nodes, tagName \in Selectors :
        Queried("getElementsByTagName", self, <<tagName>>,
                VirtualElement_getElementsByTagName(World, self, tagName))

GetElementsByAttribute ==
    \E self \in Nodes, attributeName \in QueryAttrNames :
        Queried("$getElementsByAttribute", self, <<attributeName>>,
                VirtualElement_getElementsByAttribute(World, self, attributeName))

GetElementByAttribute ==
    \E self \in Nodes, attributeName \in QueryAttrNames :
        Queried("$getElementByAttribute", self, <<attributeName>>,
                VirtualElement_getElementByAttribute(World, self, attributeName))

ElementGetElementById ==
    \E self \in Nodes, id \in TreeIds :
        Queried("getElementById", self, <<id>>,
                VirtualElement_getElementById(World, self, id))

NextElementQueries ==
    \/ CreateTreeElement
    \/ TreeAppendChild
    \/ TreeSetAttribute
    \/ ElementQuerySelectorAll
    \/ ElementQuerySelector
    \/ GetElementsByTagName
    \/ GetElementsByAttribute
    \/ GetElementByAttribute

SpecElementQueries == Init /\ [][NextElementQueries]_vars

(* Trees of up to MaxIdNodes elements of one tag, some with an id, and     *)
(* getElementById applied to their elements.                               *)
MaxIdNodes == 4
MaxIdEdges == 3

CreateIdElement ==
    \E t \in DOMAIN doms, tagName \in Tags :
        /\ Len(elements) < MaxIdNodes
        /\ elements' = VirtualDOM_createElement(World, t, tagName).elements
        /\ attrObjects' = VirtualDOM_createElement(World, t, tagName).attrObjects
        /\ doms' = VirtualDOM_createElement(World, t, tagName).doms
        /\ last' = [op |-> "createElement", dom |-> t, self |-> None, args |-> <<tagName>>,
                    thrown |-> "", notified |-> <<>>]
        /\ UNCHANGED calls

IdAppendChild ==
    \E self \in Nodes, child \in Nodes :
        /\ Len(doms[domOf(World, self)].children) < MaxIdEdges
        /\ Called("appendChild", self, <<child>>,
                  VirtualElement_appendChild(World, self, child))

NextGetElementById ==
    \/ CreateIdElement
    \/ IdAppendChild
    \/ TreeSetAttribute
    \/ ElementGetElementById

SpecGetElementById == Init /\ [][NextGetElementById]_vars

(* The proper descendants of n in depth-first pre-order of the children    *)
(* sequences (defined when no cycle of children is reachable from n).      *)
RECURSIVE preOrder(_)
preOrder(n) ==
    Concat([i \in 1..Len(elements[n].children) |->
               <<elements[n].children[i]>> \o preOrder(elements[n].children[i])])

acyclicBelow(n) == ~overflows(World, n)

(* C23: getElementById(id) of an element returns the first of its          *)
(* descendants, in depth-first order, whose id attribute is id, and none   *)
(* only when no descendant has that id.                                    *)
C23_GetElementById ==
    (last.op = "getElementById" /\ acyclicBelow(last.self)) =>
        /\ last.thrown = ""
        /\ last.returned =
               first(matching(preOrder(last.self),
                              LAMBDA e : hasAttribute(e, "id", last.args[1]), 1))

(* C24: querySelectorAll(tag) and getElementsByTagName(tag) of an element  *)
(* return all its descendants of that tag at any depth, that is            *)
(* querySelectorAll("*") restricted to the tag, and querySelector(tag)     *)
(* returns the first of them.                                              *)
C24_AllDescendantsOfTag ==
    (/\ last.op \in {"querySelectorAll", "getElementsByTagName", "querySelector"}
     /\ last.args[1] \in QueryTags
     /\ acyclicBelow(last.self)) =>
        LET all == matching(preOrder(last.self),
                            LAMBDA e : hasTag(e, last.args[1]), 1)
        IN  /\ last.thrown = ""
            /\ last.op # "querySelector" => last.returned = all
            /\ last.op = "querySelector" => last.returned = first(all)

(* e has an attribute of that name, whatever its value.                    *)
hasOwnAttribute(e, name) == name \in DOMAIN attrObjects[elements[e].attributes]

C36_AbsentChildRemovesNothing ==
    [][ ( /\ last'.op = "removeChild"
          /\ ~includes(elements[last'.self].children, last'.args[1]) ) =>
          /\ elements'[last'.self].children = elements[last'.self].children
          /\ doms'[last'.dom].children = doms[last'.dom].children
      ]_vars

(* C37: the children relation is acyclic: no node is its own child or      *)
(* ancestor, so the deep clone at the start of a mutation terminates.      *)
C37_Acyclic ==
    /\ \A n \in Nodes : n \notin descendants(World, n)
    /\ last.thrown # "RangeError"

(* get isConnected(): !this.$isRemoved *)
VirtualElement_isConnected(w, self) == ~w.elements[self].isRemoved

(* C38: the removed flag is monotone: a removed node stays removed under   *)
(* every later operation, so isConnected never goes from false to true.    *)
C38_RemovedIsMonotone ==
    [][ \A n \in Nodes :
          /\ elements[n].isRemoved => elements'[n].isRemoved
          /\ ~VirtualElement_isConnected(World, n) =>
                 ~VirtualElement_isConnected(
                     [World EXCEPT !.elements = elements'], n)
      ]_vars

(* A removed node was handed to appendChild of a tree or of an element     *)
(* and is still removed.                                                   *)
C38_Witness ==
    /\ last.op \in {"VirtualDOM.appendChild", "appendChild"}
    /\ last.thrown = ""
    /\ elements[last.args[1]].isRemoved
    /\ \A t \in DOMAIN doms : ~includes(doms[t].directChildren, last.args[1])

(* ------------------------------ removal -------------------------------- *)
(* Elements appended to the tree and to each other and removed, any number *)
(* of times, while the collections stay within MaxTreeEdges entries and    *)
(* the top-level nodes within MaxTopLevel.                                 *)
MaxTopLevel == 1

TreeDomAppendChild ==
    \E t \in DOMAIN doms, child \in Nodes :
        /\ Len(doms[t].directChildren) < MaxTopLevel
        /\ elements' = VirtualDOM_appendChild(World, t, child).elements
        /\ attrObjects' = VirtualDOM_appendChild(World, t, child).attrObjects
        /\ doms' = VirtualDOM_appendChild(World, t, child).doms
        /\ last' = [op |-> "VirtualDOM.appendChild", dom |-> t, self |-> None,
                    args |-> <<child>>, thrown |-> "", notified |-> <<>>]
        /\ UNCHANGED calls

TreeRemove ==
    \E self \in Nodes :
        Called("remove", self, <<>>, VirtualElement_remove(World, self))

NextRemove ==
    \/ CreateElement
    \/ TreeDomAppendChild
    \/ TreeAppendChild
    \/ TreeRemove

SpecRemove == Init /\ [][NextRemove]_vars

(* C35: a second n.remove() changes no collection: the top-level nodes,    *)
(* the flattened index and every node's children are as the first call     *)
(* left them, and no other node's removed flag changes.                    *)
C35_RemoveTwice ==
    [][ ( /\ Completed("remove")
          /\ last'.op = "remove"
          /\ last'.self = last.self ) =>
          /\ doms' = doms
          /\ \A m \in Nodes : elements'[m].children = elements[m].children
          /\ \A m \in Nodes \ {last.self} :
                 elements'[m].isRemoved = elements[m].isRemoved
      ]_vars

(* The world with no tree-change listener registered on any tree.          *)
unlistened(w) ==
    [w EXCEPT !.doms = [t \in DOMAIN @ |-> [@[t] EXCEPT !.treeChangeListeners = <<>>]]]

(* The world the mutation `op` of self with these arguments leaves.        *)
applied(w, op, self, args) ==
    CASE op = "setAttribute"    -> VirtualElement_setAttribute(w, self, args[1], args[2])
      [] op = "removeAttribute" -> VirtualElement_removeAttribute(w, self, args[1])
      [] op = "appendChild"     -> VirtualElement_appendChild(w, self, args[1])
      [] op = "replaceChild"    -> VirtualElement_replaceChild(w, self, args[1], args[2])
      [] op = "prepend"         -> VirtualElement_prepend(w, self, args[1])
      [] op = "remove"          -> VirtualElement_remove(w, self)
      [] op = "removeChild"     -> VirtualElement_removeChild(w, self, args[1])
      [] op = "firstChild="     -> VirtualElement_setFirstChild(w, self, args[1])
      [] op = "lastChild="      -> VirtualElement_setLastChild(w, self, args[1])
      [] op = "innerText="      -> VirtualElement_setInnerText(w, self, args[1])

VirtualElement_emit(w, self, event) == VirtualElement_dispatchEvent(w, self, event)

(* click(): this.$emit(new VirtualEvent("click", {trusted: false})) *)
VirtualElement_click(w, self) ==
    VirtualElement_emit(w, self, VirtualEvent("click", [trusted |-> FALSE]))

(* The closure addEventListener(eventName, callback) returned:             *)
(* () => this.removeEventListener(eventName, callback)                     *)
unregister(w, self, eventName, callback) ==
    VirtualElement_removeEventListener(w, self, eventName, callback)

Dispatched(op, self, args, res) ==
    /\ last' = [op |-> op, dom |-> domOf(World, self), self |-> self,
                args |-> args, thrown |-> res.thrown,
                notified |-> <<>>, event |-> res.event, invoked |-> res.invoked]
    /\ UNCHANGED <<elements, attrObjects, doms, calls>>

Emit ==
    \E self \in Nodes, name \in EventNames :
        Dispatched("$emit", self, <<VirtualEvent(name, [k \in {} |-> TRUE])>>,
            VirtualElement_emit(World, self, VirtualEvent(name, [k \in {} |-> TRUE])))

Click ==
    \E self \in Nodes :
        Dispatched("click", self, <<VirtualEvent("click", [trusted |-> FALSE])>>,
                   VirtualElement_click(World, self))

(* A call of the closure an earlier addEventListener(eventName, ...) on    *)
(* self returned (the list of eventName exists); `was` is the list before. *)
Unregister ==
    \E self \in Nodes, eventName \in EventNames, callback \in EventCallbacks :
        LET w == unregister(World, self, eventName, callback)
        IN  /\ eventName \in DOMAIN elements[self].eventListeners
            /\ elements' = w.elements
            /\ last' = [op |-> "unregister", dom |-> domOf(World, self),
                        self |-> self, args |-> <<eventName, callback>>,
                        thrown |-> w.thrown, notified |-> <<>>,
                        was |-> elements[self].eventListeners[eventName]]
            /\ UNCHANGED <<attrObjects, doms, calls>>

NextEventCalls ==
    \/ CreateEventTarget
    \/ AddEventListener
    \/ RemoveEventListener
    \/ Unregister
    \/ DispatchEvent
    \/ Emit
    \/ Click

SpecEventCalls == Init /\ [][NextEventCalls]_vars

(* No callback is registered on self for this type of event.               *)
noListener(self, type) ==
    \/ type \notin DOMAIN elements[self].eventListeners
    \/ elements[self].eventListeners[type] = <<>>

(* C33: dispatchEvent, $emit or click() on a node without a listener for   *)
(* the event's type ends in an error, both when none was ever registered   *)
(* and when all were removed, and invokes no listener.                     *)
C33_NoListenerIsAnError ==
    (/\ last.op \in {"dispatchEvent", "$emit", "click"}
     /\ noListener(last.self, last.args[1].type)) =>
        /\ last.thrown # ""
        /\ last.invoked = <<>>

(* The callbacks a dispatch of an event of this type on self invokes.      *)
invokedBy(els, self, type) ==
    LET res == VirtualElement_dispatchEvent(
                   [World EXCEPT !.elements = els], self,
                   VirtualEvent(type, [bubbles |-> TRUE]))
    IN  {res.invoked[k].callback : k \in 1..Len(res.invoked)}

(* C34: after the closure addEventListener(type, cb) returned is called,   *)
(* and after removeEventListener(type, cb), a dispatch of type on the node *)
(* does not invoke cb, the other listeners of type are registered in their *)
(* previous relative order, and the listeners of other types and of other  *)
(* nodes are as before.                                                    *)
C34_Unregisters ==
    [][ (last'.op \in {"unregister", "removeEventListener"}) =>
          LET self == last'.self
              type == last'.args[1]
              cb   == last'.args[2]
              pre  == elements[self].eventListeners
              post == elements'[self].eventListeners
          IN  /\ cb \notin invokedBy(elements', self, type)
              /\ DOMAIN post = DOMAIN pre
              /\ \A k \in DOMAIN pre \ {type} : post[k] = pre[k]
              /\ type \in DOMAIN pre =>
                     /\ last'.thrown = ""
                     /\ ~includes(post[type], cb)
                     /\ post[type] = without(pre[type], cb)
              /\ \A m \in Nodes \ {self} : elements'[m] = elements[m]
              /\ elements' = [elements EXCEPT ![self].eventListeners = post]
              /\ attrObjects' = attrObjects
              /\ doms' = doms
      ]_vars

(* The closure was called for a callback registered twice among others:    *)
(* the others remain.                                                      *)
C34_Witness ==
    /\ Completed("unregister")
    /\ Count(last.was, last.args[2]) = 2
    /\ Len(last.was) = 3
    /\ Len(elements[last.self].eventListeners[last.args[1]]) = 1

(* --------------- listeners that register and unregister ---------------- *)
(* Callbacks that change the listeners of the event's target while the     *)
(* event is dispatched:                                                    *)
(*   "cb"       returns                                                    *)
(*   "adds"     event.target.addEventListener(event.type, cb)              *)
(*   "removes"  event.target.removeEventListener(event.type, cb)           *)
LiveCallbacks == {"cb", "adds", "removes"}
MaxLiveListeners == 2

(* callback(event): the world as the callback leaves it. *)
invokeLive(w, cb, event) ==
    IF cb = "adds" THEN VirtualElement_addEventListener(w, event.target, event.type, "cb")
    ELSE IF cb = "removes"
    THEN VirtualElement_removeEventListener(w, event.target, event.type, "cb")
    ELSE w

(* for (const callback of this.eventListeners[event.type]) { ... } from    *)
(* the i-th entry on.  The iterator holds the array object the loop        *)
(* started with and reads its length at every step: `iterated` is that     *)
(* array, and `same` tells whether it still is the node's list (push       *)
(* appends to it, removeEventListener puts a new array in its place).      *)
RECURSIVE forOfLive(_, _, _, _, _, _, _)
forOfLive(w, self, event, iterated, same, i, invoked) ==
    IF i > Len(iterated) THEN [w |-> w, invoked |-> invoked]
    ELSE LET cb    == iterated[i]
             w1    == invokeLive(w, cb, event)
             arr   == IF same /\ cb = "adds"
                      THEN w1.elements[self].eventListeners[event.type]
                      ELSE iterated
             calls1 == Append(invoked, [listener |-> i, callback |-> cb])
         IN  IF ~event.bubbles THEN [w |-> w1, invoked |-> calls1]
             ELSE forOfLive(w1, self, event, arr, same /\ cb # "removes", i + 1, calls1)

(* dispatchEvent(event) with callbacks that change the listeners *)
dispatchEventLive(w, self, event) ==
    LET targeted == [event EXCEPT !.target = self]
    IN  IF event.type \notin DOMAIN w.elements[self].eventListeners
        THEN [w |-> w, invoked |-> <<>>, thrown |-> "TypeError"]
        ELSE [thrown |-> ""] @@
             forOfLive(w, self, targeted,
                       w.elements[self].eventListeners[event.type], TRUE, 1, <<>>)

AddLiveListener ==
    \E self \in Nodes, eventName \in EventNames, callback \in LiveCallbacks :
        /\ registrations < MaxLiveListeners
        /\ elements' = VirtualElement_addEventListener(World, self, eventName, callback).elements
        /\ last' = [op |-> "addEventListener", dom |-> domOf(World, self), self |-> self,
                    args |-> <<eventName, callback>>, thrown |-> "", notified |-> <<>>]
        /\ UNCHANGED <<attrObjects, doms, calls>>

DispatchLive ==
    \E self \in Nodes, name \in EventNames :
        LET event == VirtualEvent(name, [k \in {} |-> TRUE])
            res   == dispatchEventLive(World, self, event)
        IN  /\ registrations <= MaxLiveListeners
            /\ elements' = res.w.elements
            /\ last' = [op |-> "dispatchEvent", dom |-> domOf(World, self), self |-> self,
                        args |-> <<event>>, thrown |-> res.thrown,
                        notified |-> <<>>, invoked |-> res.invoked]
            /\ UNCHANGED <<attrObjects, doms, calls>>

NextLive ==
    \/ CreateEventTarget
    \/ AddLiveListener
    \/ DispatchLive

SpecLive == Init /\ [][NextLive]_vars

(* C39: the listeners one dispatchEvent call invokes are fixed when it     *)
(* starts: a listener added for the type during the dispatch is not        *)
(* invoked in it, and a listener removed during the dispatch is not        *)
(* invoked later in it.                                                    *)
C39_FixedAtStart ==
    [][ (last'.op = "dispatchEvent" /\ last'.thrown = "") =>
          LET atStart == elements[last'.self].eventListeners[last'.args[1].type]
              invoked == last'.invoked
          IN  /\ \A k \in 1..Len(invoked) : invoked[k].listener <= Len(atStart)
              /\ \A j \in 1..Len(invoked), k \in 1..Len(invoked) :
                     (j < k /\ invoked[j].callback = "removes") =>
                         invoked[k].callback # "cb"
      ]_vars

(* ------------------------------ siblings ------------------------------- *)
(* arr[i] of a JavaScript array (0-based): undefined outside 0..length-1   *)
elementAt(arr, i) == IF i >= 0 /\ i < Len(arr) THEN arr[i + 1] ELSE None

(* get nextSibling() *)
VirtualElement_nextSibling(w, self) ==
    LET e == w.elements[self]
    IN  IF e.parent # None
        THEN elementAt(w.elements[e.parent].children,
                       indexOf(w.elements[e.parent].children, self) + 1)
        ELSE elementAt(w.doms[e.parentDocument].directChildren,
                       indexOf(w.doms[e.parentDocument].children, self) + 1)

(* get previousSibling() *)
VirtualElement_previousSibling(w, self) ==
    LET e == w.elements[self]
    IN  IF e.parent # None
        THEN elementAt(w.elements[e.parent].children,
                       indexOf(w.elements[e.parent].children, self) - 1)
        ELSE elementAt(w.doms[e.parentDocument].directChildren,
                       indexOf(w.doms[e.parentDocument].children, self) - 1)

MaxSiblings == 2

SiblingDomAppendChild ==
    \E t \in DOMAIN doms, child \in Nodes :
        /\ Len(doms[t].directChildren) < MaxSiblings
        /\ elements' = VirtualDOM_appendChild(World, t, child).elements
        /\ attrObjects' = VirtualDOM_appendChild(World, t, child).attrObjects
        /\ doms' = VirtualDOM_appendChild(World, t, child).doms
        /\ last' = [op |-> "VirtualDOM.appendChild", dom |-> t, self |-> None,
                    args |-> <<child>>, thrown |-> "", notified |-> <<>>]
        /\ UNCHANGED calls

SiblingAppendChild ==
    \E self \in Nodes, child \in Nodes :
        /\ Len(elements[self].children) < MaxSiblings
        /\ Len(doms[domOf(World, self)].children) < MaxSiblings
        /\ Called("appendChild", self, <<child>>,
                  VirtualElement_appendChild(World, self, child))

NextSibling ==
    \E self \in Nodes :
        Queried("nextSibling", self, <<>>,
                [returned |-> VirtualElement_nextSibling(World, self), thrown |-> ""])

PreviousSibling ==
    \E self \in Nodes :
        Queried("previousSibling", self, <<>>,
                [returned |-> VirtualElement_previousSibling(World, self), thrown |-> ""])

NextSiblings ==
    \/ CreateElement
    \/ SiblingDomAppendChild
    \/ SiblingAppendChild
    \/ NextSibling
    \/ PreviousSibling

SpecSiblings == Init /\ [][NextSiblings]_vars

(* C31: for a node at index i of its parent's children, nextSibling is the *)
(* node at index i+1 and previousSibling the node at index i-1 (none at    *)
(* the ends); for a top-level node the same holds within topLevelNodes;    *)
(* and no node is its own nextSibling or previousSibling.                  *)
C31_Siblings ==
    last.op \in {"nextSibling", "previousSibling"} =>
        LET self == last.self
            step == IF last.op = "nextSibling" THEN 1 ELSE -1
            p    == elements[self].parent
            top  == doms[elements[self].parentDocument].directChildren
        IN  /\ last.returned # self
            /\ (p # None /\ isChildOf(elements, self, p)) =>
                   last.returned = elementAt(elements[p].children,
                                             indexOf(elements[p].children, self) + step)
            /\ isTopLevel(self) =>
                   last.returned = elementAt(top, indexOf(top, self) + step)

(* ------------------------------ $ToElement ----------------------------- *)
(* The HTMLElement $ToElement builds, as a record: its tag, the attributes *)
(* set on it, its shadow root (<<>> when none was attached, else the mode  *)
(* and the child nodes appended to the root), the listeners registered,    *)
(* its child nodes and its innerText.  `thrown` is "RangeError" when the   *)
(* recursion does not end, and then only that field is meaningful.         *)
NoElement == [thrown |-> "RangeError"]

(* What `element.innerText = text` does to the children appended before    *)
(* is the document's business: a browser replaces them by the text, a      *)
(* document without layout only stores the property.                       *)
InnerTextSetters == {"replaces children", "stores property"}

(* The realized elements of the nodes of arr, each converted with          *)
(* $ToElement(convertShadow); `stack` holds the calls in progress.         *)
RECURSIVE VirtualElement_ToElement(_, _, _, _, _)
realize(w, arr, convertShadow, document, stack) ==
    [i \in 1..Len(arr) |-> VirtualElement_ToElement(w, arr[i], convertShadow, document, stack)]

(* $ToElement(convertShadow).  A call of a node with the flag it is        *)
(* already being converted with never returns.                             *)
VirtualElement_ToElement(w, self, convertShadow, document, stack) ==
    IF <<self, convertShadow>> \in stack THEN NoElement
    ELSE
    LET e          == w.elements[self]
        attributes == w.attrObjects[e.attributes]
        inner      == stack \cup {<<self, convertShadow>>}
        converts   == e.shadow # NoDOM /\ convertShadow
        appended   == IF converts
                      THEN realize(w, w.doms[e.shadow].children, TRUE, document, inner)
                           \o realize(w, w.doms[e.shadow].directChildren, FALSE, document, inner)
                      ELSE <<>>
        children   == realize(w, e.children, TRUE, document, inner)
    IN  IF \E i \in 1..Len(appended \o children) : (appended \o children)[i].thrown # ""
        THEN NoElement
        ELSE [ thrown     |-> "",
               tagName    |-> e.tagName,
               attributes |-> [k \in {n \in DOMAIN attributes : attributes[n] # ""} |->
                                   attributes[k]],
               shadowRoot |-> IF converts
                              THEN <<[mode     |-> IF e.shadowOptions = undefined
                                                   THEN "open" ELSE e.shadowOptions[1].mode,
                                      children |-> appended]>>
                              ELSE <<>>,
               listeners  |-> e.eventListeners,
               children   |-> IF document = "replaces children" THEN <<>> ELSE children,
               innerText  |-> e.innerText ]

MaxHosts == 2

HostAttachShadow ==
    \E self \in Nodes :
        LET w == VirtualElement_attachShadow(World, self, undefined)
        IN  /\ Cardinality(DOMAIN doms \ DomNames) < MaxHosts
            /\ elements[self].shadow = NoDOM
            /\ elements' = w.elements
            /\ doms' = w.doms
            /\ last' = [op |-> "attachShadow", dom |-> domOf(World, self), self |-> self,
                        args |-> <<undefined>>, thrown |-> "", notified |-> <<>>,
                        returned |-> w.elements[self].shadow]
            /\ UNCHANGED <<attrObjects, calls>>

ToElement ==
    \E self \in Nodes, convertShadow \in BOOLEAN, document \in InnerTextSetters :
        LET element == VirtualElement_ToElement(World, self, convertShadow, document, {})
        IN  /\ last' = [op |-> "$ToElement", dom |-> domOf(World, self), self |-> self,
                        args |-> <<convertShadow>>, thrown |-> element.thrown,
                        notified |-> <<>>, returned |-> element]
            /\ UNCHANGED <<elements, attrObjects, doms, calls>>

NextToElement ==
    \/ CreateElement
    \/ HostAttachShadow
    \/ DomAppendChild
    \/ AppendChild
    \/ ToElement

SpecToElement == Init /\ [][NextToElement]_vars

RECURSIVE shadowLevels(_)
(* The largest number of shadow roots nested in one another in element.    *)
deepest(arr) ==
    IF arr = <<>> THEN 0
    ELSE CHOOSE d \in {shadowLevels(arr[i]) : i \in 1..Len(arr)} :
             \A i \in 1..Len(arr) : shadowLevels(arr[i]) <= d

shadowLevels(element) ==
    Max(deepest(element.children),
        IF element.shadowRoot = <<>> THEN 0
        ELSE 1 + deepest(element.shadowRoot[1].children))

(* An element at any depth below a shadow root of element has itself a     *)
(* shadow root.                                                            *)
RECURSIVE convertedBelowShadow(_)
convertedBelowShadow(element) ==
    \/ \E i \in 1..Len(element.children) : convertedBelowShadow(element.children[i])
    \/ /\ element.shadowRoot # <<>>
       /\ \E i \in 1..Len(element.shadowRoot[1].children) :
              shadowLevels(element.shadowRoot[1].children[i]) > 0

(* C32: when a node that has a nested tree is converted with convertShadow *)
(* true, no element realized into its shadow root, at any depth below the  *)
(* root, has a shadow root of its own: the nested trees of the nodes       *)
(* inside the shadow are not converted, and shadow roots nest at most one  *)
(* level deep.                                                             *)
C32_ShadowOneLevel ==
    ( /\ Completed("$ToElement")
      /\ last.args = <<TRUE>>
      /\ elements[last.self].shadow # NoDOM ) =>
        /\ ~convertedBelowShadow(last.returned)
        /\ shadowLevels(last.returned) <= 1

============================================================================
